---- MODULE Spec2Model ----
(***************************************************************************)
(* Content-Repurposing-Agent: segmentation, prompt templating and the     *)
(* Gemini generation client with model fallback.                           *)
(*                                                                         *)
(* Text is a sequence of characters over a small alphabet: two letters,   *)
(* the space and the newline.  A paragraph boundary is the two-character  *)
(* sequence newline newline, as in str.split("\n\n").                      *)
(***************************************************************************)
EXTENDS Integers, Sequences, FiniteSets, TLC

\* ------------------------------------------------------------------ bounds
MaxTextLen == 7
MaxMinWords == 3
MaxPlatformLabels == 3
MaxSegments == 3
MaxCalls == 4
MaxResults == 5
MaxLongSegments == 25
MaxParts == 2
MaxLimitWords == 2
MaxLimitTextLen == 6
MaxAuthCalls == 3
MaxProcs == 3
MaxCandidates == 2

\* ------------------------------------------------------------ text helpers
NL == "\n"
SP == " "
Letters == {"a", "b"}
Chars == Letters \cup {SP, NL}

\* sequences over S of length 0..n
SeqsUpTo(S, n) == UNION {[1..k -> S] : k \in 0..n}

IsSpace(c) == c \in {SP, NL}

\* str.strip(): drop leading and trailing whitespace
RECURSIVE LStrip(_)
LStrip(s) == IF s = <<>> THEN <<>>
             ELSE IF IsSpace(Head(s)) THEN LStrip(Tail(s)) ELSE s

RECURSIVE RStrip(_)
RStrip(s) == IF s = <<>> THEN <<>>
             ELSE IF IsSpace(s[Len(s)]) THEN RStrip(SubSeq(s, 1, Len(s) - 1)) ELSE s

Strip(s) == RStrip(LStrip(s))

\* text.split("\n\n"): non-overlapping separators, scanned left to right;
\* cur is the piece being collected, acc the pieces already closed
RECURSIVE SplitBlankFrom(_, _, _)
SplitBlankFrom(s, cur, acc) ==
    IF s = <<>> THEN Append(acc, cur)
    ELSE IF Len(s) >= 2 /\ s[1] = NL /\ s[2] = NL
         THEN SplitBlankFrom(SubSeq(s, 3, Len(s)), <<>>, Append(acc, cur))
         ELSE SplitBlankFrom(Tail(s), Append(cur, Head(s)), acc)

SplitBlank(s) == SplitBlankFrom(s, <<>>, <<>>)

\* str.split(): the number of maximal runs of non-whitespace characters
RECURSIVE CountTokens(_, _)
CountTokens(s, inWord) ==
    IF s = <<>> THEN 0
    ELSE IF IsSpace(Head(s)) THEN CountTokens(Tail(s), FALSE)
         ELSE (IF inWord THEN 0 ELSE 1) + CountTokens(Tail(s), TRUE)

\* word_count: for texts of letters and whitespace word_tokenize and the
\* whitespace fallback give the same count
word_count(s) == CountTokens(s, FALSE)

\* sep.join(parts)
RECURSIVE Join(_, _)
Join(parts, sep) ==
    IF parts = <<>> THEN <<>>
    ELSE IF Len(parts) = 1 THEN parts[1]
         ELSE parts[1] \o sep \o Join(Tail(parts), sep)

BlankLine == <<NL, NL>>

\* [x for x in xs if x.strip()] with each x stripped
RECURSIVE StripNonEmpty(_)
StripNonEmpty(xs) ==
    IF xs = <<>> THEN <<>>
    ELSE IF Strip(Head(xs)) # <<>>
         THEN <<Strip(Head(xs))>> \o StripNonEmpty(Tail(xs))
         ELSE StripNonEmpty(Tail(xs))

\* ------------------------------------------------------------ segmentation
\* the paragraphs with a slip: filtered on strip() but kept unstripped
Paragraphs_unstripped(t) == SelectSeq(SplitBlank(t), LAMBDA piece : Strip(piece) # <<>>)

\* paragraphs of split_into_segments
Paragraphs(t) == StripNonEmpty(SplitBlank(t))

\* flush_buffer, with the drop-the-short-tail slip
flush_buffer_dropshort(st, mw) ==
    IF Strip(st.buffer) # <<>> /\ word_count(st.buffer) >= mw
    THEN [segments |-> Append(st.segments, Strip(st.buffer)), buffer |-> <<>>]
    ELSE st

\* flush_buffer: st is the pair (segments, buffer) of the enclosing call
flush_buffer(st, mw) ==
    IF Strip(st.buffer) # <<>>
    THEN [segments |-> Append(st.segments, Strip(st.buffer)), buffer |-> <<>>]
    ELSE st

\* the loop body with a slip: a long paragraph joins the pending buffer
SegmentStep_mergeLong(st, paragraph, mw) ==
    IF word_count(paragraph) >= mw /\ st.buffer = <<>>
    THEN [st EXCEPT !.segments = Append(st.segments, paragraph)]
    ELSE LET b == Strip(st.buffer \o BlankLine \o paragraph)
             g == [st EXCEPT !.buffer = b]
         IN  IF word_count(b) >= mw THEN flush_buffer(g, mw) ELSE g

\* the loop body with a slip: a long paragraph is emitted while the pending
\* buffer stays pending
SegmentStep_keepBuffer(st, paragraph, mw) ==
    IF word_count(paragraph) >= mw
    THEN [st EXCEPT !.segments = Append(st.segments, paragraph)]
    ELSE LET b == Strip(st.buffer \o BlankLine \o paragraph)
             g == [st EXCEPT !.buffer = b]
         IN  IF word_count(b) >= mw THEN flush_buffer(g, mw) ELSE g

\* one iteration of the loop over paragraphs
SegmentStep(st, paragraph, mw) ==
    IF word_count(paragraph) >= mw
    THEN LET f == IF st.buffer # <<>> THEN flush_buffer(st, mw) ELSE st
         IN  [f EXCEPT !.segments = Append(f.segments, paragraph)]
    ELSE LET b == Strip(st.buffer \o BlankLine \o paragraph)
             g == [st EXCEPT !.buffer = b]
         IN  IF word_count(b) >= mw THEN flush_buffer(g, mw) ELSE g

RECURSIVE SegmentLoop(_, _, _)
SegmentLoop(st, paras, mw) ==
    IF paras = <<>> THEN st
    ELSE SegmentLoop(SegmentStep(st, Head(paras), mw), Tail(paras), mw)

split_into_segments(t, mw) ==
    LET paragraphs == Paragraphs(t)
    IN  IF paragraphs = <<>> THEN <<>>
        ELSE flush_buffer(SegmentLoop([segments |-> <<>>, buffer |-> <<>>],
                                      paragraphs, mw), mw).segments

\* --------------------------------------------------------- prompt templates
\* The instruction text of a template, up to its {content} placeholder, is one
\* token; every template ends with "Content:\n{content}".
TEMPLATES_youtube_gap ==
    [linkedin  |-> [professional |-> "linkedin/professional Content:",
                    casual       |-> "linkedin/casual Content:",
                    promotional  |-> "linkedin/promotional Content:"],
     instagram |-> [professional |-> "instagram/professional Content:",
                    casual       |-> "instagram/casual Content:",
                    promotional  |-> "instagram/promotional Content:"],
     youtube   |-> [professional |-> "youtube/professional Content:",
                    casual       |-> "youtube/casual Content:"]]

TEMPLATES ==
    [linkedin  |-> [professional |-> "linkedin/professional Content:",
                    casual       |-> "linkedin/casual Content:",
                    promotional  |-> "linkedin/promotional Content:"],
     instagram |-> [professional |-> "instagram/professional Content:",
                    casual       |-> "instagram/casual Content:",
                    promotional  |-> "instagram/promotional Content:"],
     youtube   |-> [professional |-> "youtube/professional Content:",
                    casual       |-> "youtube/casual Content:",
                    promotional  |-> "youtube/promotional Content:"]]

TONES == [Professional |-> "professional", Casual |-> "casual",
          Promotional |-> "promotional"]

PLATFORMS == [LinkedIn |-> "linkedin", Instagram |-> "instagram",
              YouTube |-> "youtube"]

\* template.format(tone=..., content=...): no template uses {tone}
Format(template, content) == <<template>> \o content

\* ------------------------------------------------------------ PromptBuilder
None == "None"

\* a raised exception and a normal return
Raise(type, msg) == [raised |-> TRUE, type |-> type, msg |-> msg]
Return(v) == [raised |-> FALSE, value |-> v]

\* _resolve_platforms, with the skip-unknown-labels slip
RECURSIVE resolve_platforms_skip(_)
resolve_platforms_skip(labels) ==
    IF labels = <<>> THEN Return(<<>>)
    ELSE LET rest == resolve_platforms_skip(Tail(labels))
         IN  IF Head(labels) \notin DOMAIN PLATFORMS THEN rest
             ELSE Return(<<PLATFORMS[Head(labels)]>> \o rest.value)

\* PromptBuilder._resolve_platforms: raises at the first unknown label
RECURSIVE resolve_platforms(_)
resolve_platforms(labels) ==
    IF labels = <<>> THEN Return(<<>>)
    ELSE IF Head(labels) \notin DOMAIN PLATFORMS
         THEN Raise("ValueError", <<"Unsupported platform: ", Head(labels)>>)
         ELSE LET rest == resolve_platforms(Tail(labels))
              IN  IF rest.raised THEN rest
                  ELSE Return(<<PLATFORMS[Head(labels)]>> \o rest.value)

\* PromptBuilder.__init__
PromptBuilderInit(tone, labels) ==
    IF tone \notin DOMAIN TONES
    THEN Raise("ValueError", <<"Unsupported tone: ", tone>>)
    ELSE LET r == resolve_platforms(labels)
         IN  IF r.raised THEN r
             ELSE Return([tone_key |-> TONES[tone], platform_ids |-> r.value])

\* a dict is the sequence of its items in insertion order
DictKeys(d) == [i \in 1..Len(d) |-> d[i].key]
DictHas(d, k) == \E i \in 1..Len(d) : d[i].key = k
DictGet(d, k) == d[CHOOSE i \in 1..Len(d) : d[i].key = k].value

\* d[k] = v, with a slip: an assigned key always goes to the end
DictSet_moveToEnd(d, k, v) ==
    SelectSeq(d, LAMBDA it : it.key # k) \o <<[key |-> k, value |-> v]>>

\* d[k] = v: an existing key keeps its position
DictSet(d, k, v) ==
    IF DictHas(d, k)
    THEN [i \in 1..Len(d) |-> IF d[i].key = k THEN [key |-> k, value |-> v] ELSE d[i]]
    ELSE Append(d, [key |-> k, value |-> v])

\* the list comprehension of build_prompts, with a slip: empty segments kept
RECURSIVE ExpandTemplate_keepEmpty(_, _)
ExpandTemplate_keepEmpty(template, segs) ==
    IF segs = <<>> THEN <<>>
    ELSE <<Format(template, Strip(Head(segs)))>> \o ExpandTemplate_keepEmpty(template, Tail(segs))

\* [template.format(content=s.strip()) for s in segments if s.strip()]
RECURSIVE ExpandTemplate(_, _)
ExpandTemplate(template, segs) ==
    IF segs = <<>> THEN <<>>
    ELSE IF Strip(Head(segs)) # <<>>
         THEN <<Format(template, Strip(Head(segs)))>> \o ExpandTemplate(template, Tail(segs))
         ELSE ExpandTemplate(template, Tail(segs))

\* the loop of build_prompts over platform_ids, against a registry
RECURSIVE BuildLoop(_, _, _, _, _)
BuildLoop(registry, tone_key, ids, segs, prompts) ==
    IF ids = <<>> THEN Return(prompts)
    ELSE LET platform_id == Head(ids)
         IN  IF platform_id \notin DOMAIN registry
             THEN Raise("KeyError", <<platform_id>>)
             ELSE IF tone_key \notin DOMAIN registry[platform_id]
             THEN Raise("ValueError",
                        <<"Tone '", tone_key, "' is not defined for platform '", platform_id, "'.">>)
             ELSE BuildLoop(registry, tone_key, Tail(ids), segs,
                            DictSet(prompts, platform_id,
                                    ExpandTemplate(registry[platform_id][tone_key], segs)))

\* PromptBuilder.build_prompts
build_prompts(self, segs) ==
    BuildLoop(TEMPLATES, self.tone_key, self.platform_ids, segs, <<>>)

\* ---------------------------------------------------------- GeminiConnector
\* A model name and an exception message are sequences of tokens.
StaticPreference ==
    << <<"gemini-1.5-pro">>, <<"gemini-1.5-flash">>,
       <<"gemini-1.5-pro-latest">>, <<"gemini-1.5-flash-latest">> >>

\* name.replace("models/", "")
RemoveModelsPrefix(name) == SelectSeq(name, LAMBDA tok : tok # "models/")

\* genai.list_models(): it raises, or lists models with their supported methods
ListingFails == [fails |-> TRUE, models |-> <<>>]
Listing(ms) == [fails |-> FALSE, models |-> ms]

RECURSIVE SupportedNames(_)
SupportedNames(ms) ==
    IF ms = <<>> THEN <<>>
    ELSE IF Head(ms).methods \cap {"generateContent", "generate_content"} # {}
         THEN <<RemoveModelsPrefix(Head(ms).name)>> \o SupportedNames(Tail(ms))
         ELSE SupportedNames(Tail(ms))

\* GeminiConnector._discover_supported_models
discover_supported_models(listing) ==
    IF listing.fails THEN <<>> ELSE SupportedNames(listing.models)

\* the merge with a slip: the test for a name already listed is left out
AppendNew_noCheck(list, names) == list \o names

\* for name in names: if name not in list: list.append(name)
RECURSIVE AppendNew(_, _)
AppendNew(list, names) ==
    IF names = <<>> THEN list
    ELSE AppendNew(IF \E i \in 1..Len(list) : list[i] = Head(names)
                   THEN list ELSE Append(list, Head(names)),
                   Tail(names))

\* the candidate list built by GeminiConnector.__init__; preferred is
\* model_name or GEMINI_MODEL, the empty name when neither is set
candidate_models(preferred, listing) ==
    AppendNew(AppendNew(IF preferred # <<>> THEN <<preferred>> ELSE <<>>,
                        StaticPreference),
              discover_supported_models(listing))

\* _switch_to_next_model, with a slip: it steps over a candidate when two remain
switch_to_next_model_skip(self) ==
    IF self.current_model_index + 2 < Len(self.model_names)
    THEN [switched |-> TRUE,
          self |-> [self EXCEPT !.current_model_index = @ + 2,
                                !.model = self.model_names[self.current_model_index + 3]]]
    ELSE IF self.current_model_index + 1 < Len(self.model_names)
    THEN [switched |-> TRUE,
          self |-> [self EXCEPT !.current_model_index = @ + 1,
                                !.model = self.model_names[self.current_model_index + 2]]]
    ELSE [switched |-> FALSE, self |-> self]

\* _switch_to_next_model, with a slip: past the last candidate it wraps around
switch_to_next_model_wrap(self) ==
    LET next == (self.current_model_index + 1) % Len(self.model_names)
    IN  [switched |-> TRUE,
         self |-> [self EXCEPT !.current_model_index = next,
                               !.model = self.model_names[next + 1]]]

\* GeminiConnector._switch_to_next_model (the index is 0-based)
switch_to_next_model(self) ==
    IF self.current_model_index + 1 < Len(self.model_names)
    THEN [switched |-> TRUE,
          self |-> [self EXCEPT !.current_model_index = @ + 1,
                                !.model = self.model_names[self.current_model_index + 2]]]
    ELSE [switched |-> FALSE, self |-> self]

\* message.lower(), token by token
LowerToken(tok) ==
    CASE tok = "Not Found" -> "not found"
      [] tok = "Model" -> "model"
      [] OTHER -> tok

Lower(msg) == [i \in 1..Len(msg) |-> LowerToken(msg[i])]

\* needle in message
Contains(msg, needle) == \E i \in 1..Len(msg) : msg[i] = needle

\* the test for an unavailable model, with a slip: lower() forgotten
IsModelUnavailable_caseSensitive(message) ==
    \/ Contains(message, "404")
    \/ Contains(message, "not found")
    \/ Contains(message, "not supported")

\* "404" in message or "not found" in message.lower()
\*                  or "not supported" in message.lower()
IsModelUnavailable(message) ==
    \/ Contains(message, "404")
    \/ Contains(Lower(message), "not found")
    \/ Contains(Lower(message), "not supported")

\* outcomes of model.generate_content(prompt)
Raised(msg) == [ok |-> FALSE, msg |-> msg, response |-> <<>>]
Responded(r) == [ok |-> TRUE, msg |-> <<>>, response |-> r]

\* str(part.text) for part in parts if hasattr(part, "text")
RECURSIVE PartTexts(_)
PartTexts(parts) ==
    IF parts = <<>> THEN <<>>
    ELSE IF Head(parts).hasText
         THEN <<Head(parts).text>> \o PartTexts(Tail(parts))
         ELSE PartTexts(Tail(parts))

\* the loop over result.candidates with a slip: it stops after the first
\* candidate that has a content
RECURSIVE CandidateTexts_firstOnly(_)
CandidateTexts_firstOnly(cands) ==
    IF cands = <<>> THEN <<>>
    ELSE IF ~Head(cands).hasContent THEN CandidateTexts_firstOnly(Tail(cands))
         ELSE PartTexts(Head(cands).parts)

\* the loop over result.candidates
RECURSIVE CandidateTexts(_)
CandidateTexts(cands) ==
    IF cands = <<>> THEN <<>>
    ELSE IF ~Head(cands).hasContent THEN CandidateTexts(Tail(cands))
         ELSE PartTexts(Head(cands).parts) \o CandidateTexts(Tail(cands))

\* the extraction of the text of a response
ExtractText(result) ==
    LET text == IF result.hasText THEN result.text ELSE <<>>
    IN  IF text = <<>> /\ result.hasCandidates
        THEN Strip(Join(CandidateTexts(result.candidates), <<NL>>))
        ELSE Strip(text)

\* the tip of the error string: the first 10 discovered names
Available(listing) ==
    LET names == discover_supported_models(listing)
        first == SubSeq(names, 1, IF Len(names) < 10 THEN Len(names) ELSE 10)
    IN  IF Join(first, <<", ">>) # <<>> THEN Join(first, <<", ">>)
        ELSE <<"(none discovered)">>

ErrorPrefix == "Error generating content: "
TipPrefix == "Tip: Set GEMINI_MODEL to one of: "

\* generate_text with a slip: a call that succeeds moves on to the next
\* candidate all the same
generate_text_advanceOnSuccess(self, prompt, first, retry, listing) ==
    IF Strip(prompt) = <<>>
    THEN [self |-> self, attempts |-> <<>>, raised |-> FALSE, result |-> <<>>]
    ELSE LET a1 == [index |-> self.current_model_index, model |-> self.model, outcome |-> first]
         IN  IF first.ok
             THEN [self |-> switch_to_next_model(self).self, attempts |-> <<a1>>,
                   raised |-> FALSE, result |-> ExtractText(first.response)]
             ELSE LET sw == IF IsModelUnavailable(first.msg)
                            THEN switch_to_next_model(self)
                            ELSE [switched |-> FALSE, self |-> self]
                      a2 == [index |-> sw.self.current_model_index,
                             model |-> sw.self.model, outcome |-> retry]
                  IN  IF sw.switched
                      THEN [self |-> sw.self, attempts |-> <<a1, a2>>, raised |-> FALSE,
                            result |-> IF retry.ok THEN ExtractText(retry.response)
                                       ELSE <<ErrorPrefix>> \o retry.msg]
                      ELSE [self |-> self, attempts |-> <<a1>>, raised |-> FALSE,
                            result |-> <<ErrorPrefix>> \o first.msg
                                       \o <<NL, TipPrefix>> \o Available(listing)]

\* generate_text with a slip: a failed retry puts the client back on the
\* candidate it started from
generate_text_revertOnRetryFailure(self, prompt, first, retry, listing) ==
    IF Strip(prompt) = <<>>
    THEN [self |-> self, attempts |-> <<>>, raised |-> FALSE, result |-> <<>>]
    ELSE LET a1 == [index |-> self.current_model_index, model |-> self.model, outcome |-> first]
         IN  IF first.ok
             THEN [self |-> self, attempts |-> <<a1>>, raised |-> FALSE,
                   result |-> ExtractText(first.response)]
             ELSE LET sw == IF IsModelUnavailable(first.msg)
                            THEN switch_to_next_model(self)
                            ELSE [switched |-> FALSE, self |-> self]
                      a2 == [index |-> sw.self.current_model_index,
                             model |-> sw.self.model, outcome |-> retry]
                  IN  IF sw.switched
                      THEN [self |-> IF retry.ok THEN sw.self ELSE self,
                            attempts |-> <<a1, a2>>, raised |-> FALSE,
                            result |-> IF retry.ok THEN ExtractText(retry.response)
                                       ELSE <<ErrorPrefix>> \o retry.msg]
                      ELSE [self |-> self, attempts |-> <<a1>>, raised |-> FALSE,
                            result |-> <<ErrorPrefix>> \o first.msg
                                       \o <<NL, TipPrefix>> \o Available(listing)]

\* generate_text with a slip: the switch is made before the failure is classified
generate_text_switchFirst(self, prompt, first, retry, listing) ==
    IF Strip(prompt) = <<>>
    THEN [self |-> self, attempts |-> <<>>, raised |-> FALSE, result |-> <<>>]
    ELSE LET a1 == [index |-> self.current_model_index, model |-> self.model, outcome |-> first]
         IN  IF first.ok
             THEN [self |-> self, attempts |-> <<a1>>, raised |-> FALSE,
                   result |-> ExtractText(first.response)]
             ELSE LET sw == switch_to_next_model(self)
                      a2 == [index |-> sw.self.current_model_index,
                             model |-> sw.self.model, outcome |-> retry]
                  IN  IF sw.switched /\ IsModelUnavailable(first.msg)
                      THEN [self |-> sw.self, attempts |-> <<a1, a2>>, raised |-> FALSE,
                            result |-> IF retry.ok THEN ExtractText(retry.response)
                                       ELSE <<ErrorPrefix>> \o retry.msg]
                      ELSE [self |-> sw.self, attempts |-> <<a1>>, raised |-> FALSE,
                            result |-> <<ErrorPrefix>> \o first.msg
                                       \o <<NL, TipPrefix>> \o Available(listing)]

\* generate_text with a slip: the retry is made outside any try block, so its
\* failure escapes the call
generate_text_retryUncaught(self, prompt, first, retry, listing) ==
    IF Strip(prompt) = <<>>
    THEN [self |-> self, attempts |-> <<>>, raised |-> FALSE, result |-> <<>>]
    ELSE LET a1 == [index |-> self.current_model_index, model |-> self.model, outcome |-> first]
         IN  IF first.ok
             THEN [self |-> self, attempts |-> <<a1>>, raised |-> FALSE,
                   result |-> ExtractText(first.response)]
             ELSE LET sw == IF IsModelUnavailable(first.msg)
                            THEN switch_to_next_model(self)
                            ELSE [switched |-> FALSE, self |-> self]
                      a2 == [index |-> sw.self.current_model_index,
                             model |-> sw.self.model, outcome |-> retry]
                  IN  IF sw.switched
                      THEN [self |-> sw.self, attempts |-> <<a1, a2>>, raised |-> ~retry.ok,
                            result |-> IF retry.ok THEN ExtractText(retry.response)
                                       ELSE retry.msg]
                      ELSE [self |-> self, attempts |-> <<a1>>, raised |-> FALSE,
                            result |-> <<ErrorPrefix>> \o first.msg
                                       \o <<NL, TipPrefix>> \o Available(listing)]

\* GeminiConnector.generate_text: first and retry are the outcomes of the
\* backend calls, listing the outcome of list_models() for the tip
generate_text(self, prompt, first, retry, listing) ==
    IF Strip(prompt) = <<>>
    THEN [self |-> self, attempts |-> <<>>, raised |-> FALSE, result |-> <<>>]
    ELSE LET a1 == [index |-> self.current_model_index, model |-> self.model, outcome |-> first]
         IN  IF first.ok
             THEN [self |-> self, attempts |-> <<a1>>, raised |-> FALSE,
                   result |-> ExtractText(first.response)]
             ELSE LET sw == IF IsModelUnavailable(first.msg)
                            THEN switch_to_next_model(self)
                            ELSE [switched |-> FALSE, self |-> self]
                      a2 == [index |-> sw.self.current_model_index,
                             model |-> sw.self.model, outcome |-> retry]
                  IN  IF sw.switched
                      THEN [self |-> sw.self, attempts |-> <<a1, a2>>, raised |-> FALSE,
                            result |-> IF retry.ok THEN ExtractText(retry.response)
                                       ELSE <<ErrorPrefix>> \o retry.msg]
                      ELSE [self |-> self, attempts |-> <<a1>>, raised |-> FALSE,
                            result |-> <<ErrorPrefix>> \o first.msg
                                       \o <<NL, TipPrefix>> \o Available(listing)]

\* combine_segment_outputs with a slip: results that report a failure are
\* dropped with the empty ones
combine_segment_outputs_dropErrors(outputs) ==
    Join(StripNonEmpty(SelectSeq(outputs,
                                 LAMBDA segment : segment = <<>> \/ Head(segment) # ErrorPrefix)),
         BlankLine)

\* combine_segment_outputs with a slip: the filter tests the result itself,
\* not its trimmed form, so a whitespace-only result survives as an empty one
combine_segment_outputs_keepBlank(outputs) ==
    Join([i \in 1..Len(SelectSeq(outputs, LAMBDA segment : segment # <<>>)) |->
              Strip(SelectSeq(outputs, LAMBDA segment : segment # <<>>)[i])],
         BlankLine)

\* GeminiConnector.combine_segment_outputs
combine_segment_outputs(outputs) == Join(StripNonEmpty(outputs), BlankLine)

\* ------------------------------------------------------- float arithmetic
\* completed / total_prompts and the product by 100 are IEEE-754 doubles: 53
\* significant bits, round to nearest, ties to even.  A double is a record
\* [m, s] of a sequence of bits m, most significant first, and a scale s: its
\* value is m / 2^s.
SignificandBits == 53

Zeros(n) == [i \in 1..n |-> 0]
Last(b) == b[Len(b)]

\* b without the zeros that open it
StripZeros(b) ==
    IF \A i \in 1..Len(b) : b[i] = 0 THEN <<>>
    ELSE SubSeq(b, CHOOSE i \in 1..Len(b) : b[i] = 1 /\ \A j \in 1..(i - 1) : b[j] = 0,
                Len(b))

\* b + 1: the last zero becomes a one and the ones after it zeros
Inc(b) ==
    IF \A i \in 1..Len(b) : b[i] = 1 THEN <<1>> \o Zeros(Len(b))
    ELSE LET z == CHOOSE i \in 1..Len(b) : b[i] = 0 /\ \A j \in (i + 1)..Len(b) : b[j] = 1
         IN  [i \in 1..Len(b) |-> IF i < z THEN b[i] ELSE IF i = z THEN 1 ELSE 0]

\* round to nearest, ties to even: guard is the first bit dropped, sticky
\* tells whether anything non-zero follows it
RoundEven(b, guard, sticky) ==
    IF guard = 1 /\ (sticky \/ Last(b) = 1) THEN Inc(b) ELSE b

\* n in binary, without leading zeros, and back
RECURSIVE NatToBits(_)
NatToBits(n) == IF n = 0 THEN <<>> ELSE NatToBits(n \div 2) \o <<n % 2>>

RECURSIVE BitsToNat(_)
BitsToNat(b) ==
    IF b = <<>> THEN 0 ELSE 2 * BitsToNat(SubSeq(b, 1, Len(b) - 1)) + Last(b)

\* 2^n mod d, by squaring
RECURSIVE Pow2Mod(_, _)
Pow2Mod(n, d) ==
    IF n = 0 THEN 1 % d
    ELSE IF n % 2 = 0 THEN (Pow2Mod(n \div 2, d) * Pow2Mod(n \div 2, d)) % d
         ELSE (2 * Pow2Mod(n - 1, d)) % d

\* the first n bits of the binary fraction r / d, for r < d, and what remains:
\* bit i is the integer part of twice the remainder left by the bits before it
FractionBits(r, d, n) ==
    [bits |-> [i \in 1..n |-> (2 * ((r * Pow2Mod(i - 1, d)) % d)) \div d],
     rem |-> (r * Pow2Mod(n, d)) % d]

\* the zeros that open the binary fraction k / d, for 0 < k < d
RECURSIVE LeadingZeros(_, _)
LeadingZeros(k, d) == IF 2 * k >= d THEN 0 ELSE 1 + LeadingZeros(2 * k, d)

\* the quotient rounded to its significant bits: z zeros open its bits, frac
\* of them are bits of the fraction, rem is what the division leaves
RoundQuotient(bits, rem, z, frac) ==
    [m |-> RoundEven(SubSeq(bits, z + 1, z + SignificandBits),
                     bits[z + SignificandBits + 1], rem # 0),
     s |-> frac - 1]

\* float(k) / float(d) for k >= 0 and d > 0
TrueDiv(k, d) ==
    IF k = 0 THEN [m |-> <<>>, s |-> 0]
    ELSE IF k >= d
    THEN LET int == NatToBits(k \div d)
             q == FractionBits(k % d, d, SignificandBits + 1 - Len(int))
         IN  RoundQuotient(int \o q.bits, q.rem, 0, SignificandBits + 1 - Len(int))
    ELSE LET z == LeadingZeros(k, d)
             q == FractionBits(k, d, z + SignificandBits + 1)
         IN  RoundQuotient(q.bits, q.rem, z, z + SignificandBits + 1)

\* the product p / 2^s rounded to its significant bits
RoundProduct(p, s) ==
    IF Len(p) <= SignificandBits THEN [m |-> p, s |-> s]
    ELSE [m |-> RoundEven(SubSeq(p, 1, SignificandBits), p[SignificandBits + 1],
                          \E i \in SignificandBits + 2..Len(p) : p[i] = 1),
          s |-> s - (Len(p) - SignificandBits)]

\* the j-th group of 16 bits of b, counted from its end, as a number
Limb(b, j) ==
    BitsToNat(SubSeq(b, IF Len(b) - 16 * j + 1 > 1 THEN Len(b) - 16 * j + 1 ELSE 1,
                     Len(b) - 16 * (j - 1)))

\* the 16 bits of a number below 2^16
Bits16(n) == Zeros(16 - Len(NatToBits(n))) \o NatToBits(n)

\* b * 100 for at most 64 bits, group by group with the carry of the group
\* before
TimesHundred(b) ==
    LET p1 == Limb(b, 1) * 100
        p2 == Limb(b, 2) * 100 + p1 \div 65536
        p3 == Limb(b, 3) * 100 + p2 \div 65536
        p4 == Limb(b, 4) * 100 + p3 \div 65536
    IN  StripZeros(NatToBits(p4 \div 65536) \o Bits16(p4 % 65536) \o Bits16(p3 % 65536)
                       \o Bits16(p2 % 65536) \o Bits16(p1 % 65536))

\* x * 100.0
Times100(x) == RoundProduct(TimesHundred(x.m), x.s)

\* int(x) for x >= 0: the fraction is cut off
IntOf(x) ==
    IF x.s <= 0 THEN BitsToNat(x.m \o Zeros(0 - x.s))
    ELSE IF x.s >= Len(x.m) THEN 0
         ELSE BitsToNat(SubSeq(x.m, 1, Len(x.m) - x.s))

Min(a, b) == IF a < b THEN a ELSE b

\* the progress value with a slip: the division is an integer division
progress_value_intdiv(completed, total_prompts) ==
    Min((completed \div total_prompts) * 100, 100)

\* min(int((completed / total_prompts) * 100), 100)
progress_value(completed, total_prompts) ==
    Min(IntOf(Times100(TrueDiv(completed, total_prompts))), 100)

\* the bookkeeping of a completed call with a slip: the call is counted twice
account_countTwice(completed, total_prompts, reports) ==
    [completed |-> completed + 2,
     reports |-> Append(reports, progress_value(completed + 2, total_prompts))]

\* completed += 1; progress.progress(min(int((completed / total_prompts) * 100), 100))
account(completed, total_prompts, reports) ==
    [completed |-> completed + 1,
     reports |-> Append(reports, progress_value(completed + 1, total_prompts))]

\* ------------------------------------------------------- the batch pipeline
\* Optional[...] = None for a text, a list of texts and a user id
NoText == <<None>>
NoSegments == <<NoText>>
NoUser == 0

DEFAULT_MAX_WORDS == 20000
MIN_WORDS_PER_SEGMENT == 100

\* text.split(): the maximal runs of non-whitespace characters
RECURSIVE SplitWordsFrom(_, _, _)
SplitWordsFrom(s, cur, acc) ==
    IF s = <<>> THEN (IF cur = <<>> THEN acc ELSE Append(acc, cur))
    ELSE IF IsSpace(Head(s))
         THEN SplitWordsFrom(Tail(s), <<>>, IF cur = <<>> THEN acc ELSE Append(acc, cur))
         ELSE SplitWordsFrom(Tail(s), Append(cur, Head(s)), acc)

SplitWords(s) == SplitWordsFrom(s, <<>>, <<>>)

\* enforce_word_limit with a slip: the kept words are joined as paragraphs
enforce_word_limit_joinParagraphs(t, max_words) ==
    IF Len(SplitWords(t)) <= max_words
    THEN [text |-> t, count |-> Len(SplitWords(t))]
    ELSE [text |-> Join(SubSeq(SplitWords(t), 1, max_words), BlankLine), count |-> max_words]

\* enforce_word_limit: the text, cut to max_words words, and its word count
enforce_word_limit(t, max_words) ==
    IF Len(SplitWords(t)) <= max_words
    THEN [text |-> t, count |-> Len(SplitWords(t))]
    ELSE [text |-> Join(SubSeq(SplitWords(t), 1, max_words), <<SP>>), count |-> max_words]

\* raise HTTPException(status_code=status, detail=detail)
HTTPException(status, detail) ==
    [raised |-> TRUE, type |-> "HTTPException", status |-> status, msg |-> detail]

\* the validators of GenerateRequest; FastAPI answers 422 when one raises
validate_request(payload) ==
    IF payload.segments # NoSegments
       /\ \E i \in 1..Len(payload.segments) : Strip(payload.segments[i]) = <<>>
    THEN HTTPException(422, <<"Segments must contain text.">>)
    ELSE IF payload.tone \notin DOMAIN TONES
    THEN HTTPException(422, <<"Unsupported tone '", payload.tone, "'.">>)
    ELSE IF payload.platforms = <<>>
    THEN HTTPException(422, <<"At least one platform is required.">>)
    ELSE IF \E i \in 1..Len(payload.platforms) : payload.platforms[i] \notin DOMAIN PLATFORMS
    THEN HTTPException(422, <<"Unsupported platform(s)">>)
    ELSE Return(payload)

\* generate_content: the source segments of a request
source_segments(payload) ==
    IF payload.segments # NoSegments /\ payload.segments # <<>>
    THEN Return(StripNonEmpty(payload.segments))
    ELSE IF payload.text = NoText \/ Strip(payload.text) = <<>>
    THEN HTTPException(400, <<"Provide either text or segments to repurpose.">>)
    ELSE LET limited_text == enforce_word_limit(payload.text, DEFAULT_MAX_WORDS).text
             segs == split_into_segments(limited_text, MIN_WORDS_PER_SEGMENT)
         IN  Return(IF segs = <<>> THEN <<limited_text>> ELSE segs)

\* generate_content up to the creation of the connector: the segments and the
\* prompts, or the HTTP error
api_prepare(payload, api_key) ==
    LET valid == validate_request(payload)
        segs == source_segments(payload)
        pb == PromptBuilderInit(payload.tone, payload.platforms)
        built == build_prompts(pb.value, segs.value)
    IN  IF valid.raised THEN valid
        ELSE IF segs.raised THEN segs
        ELSE IF pb.raised THEN HTTPException(400, pb.msg)
        ELSE IF built.raised /\ built.type = "ValueError" THEN HTTPException(400, built.msg)
        ELSE IF built.raised
        THEN HTTPException(500, <<"Internal server error: ">> \o built.msg)
        ELSE IF ~api_key
        THEN HTTPException(500, <<"GEMINI_API_KEY environment variable is not set.">>)
        ELSE Return([segments |-> segs.value, prompts |-> built.value])

\* sum(len(prompts) for prompts in prompts_by_platform.values())
RECURSIVE TotalPrompts(_)
TotalPrompts(d) == IF d = <<>> THEN 0 ELSE Len(Head(d).value) + TotalPrompts(Tail(d))

\* the iteration over a list of prompts with a slip: it starts from the end
next_prompt_fromEnd(prompt_list, done) == prompt_list[Len(prompt_list) - done]

\* for prompt in prompts: the prompt that follows the done first ones
next_prompt(prompt_list, done) == prompt_list[done + 1]

\* for platform_id, prompts in prompts_by_platform.items(): the position of the
\* first platform at or after pos that has a prompt to send
RECURSIVE NextPlatform(_, _)
NextPlatform(d, pos) ==
    IF pos > Len(d) \/ d[pos].value # <<>> THEN pos ELSE NextPlatform(d, pos + 1)

\* the platforms from..to-1 have no prompt: each gets the output of an empty
\* list of responses, which is empty both as a list and as a combined string
RECURSIVE StoreEmpty(_, _, _, _)
StoreEmpty(d, from, to, outs) ==
    IF from >= to THEN outs
    ELSE StoreEmpty(d, from + 1, to, DictSet(outs, d[from].key, <<>>))

\* the records save_to_db inserts: one per platform with non-blank content
RECURSIVE save_records(_, _, _, _)
save_records(title, tone, platform_outputs, user_id) ==
    IF platform_outputs = <<>> THEN <<>>
    ELSE IF Strip(Head(platform_outputs).value) # <<>>
         THEN <<[title |-> Strip(title), tone |-> tone,
                 platform |-> Head(platform_outputs).key,
                 content |-> Strip(Head(platform_outputs).value),
                 user_id |-> user_id]>>
              \o save_records(title, tone, Tail(platform_outputs), user_id)
         ELSE save_records(title, tone, Tail(platform_outputs), user_id)

\* GenerateResponse(...)
GenerateResponse(payload, segs, outs, saved) ==
    [tone |-> payload.tone, platforms |-> payload.platforms,
     segment_count |-> Len(segs), outputs |-> outs, saved |-> saved]

\* the save step of generate_content with a slip: the user_id is not looked up
api_finish_skipUserCheck(payload, segs, outs, posts, lookup, save_fails) ==
    IF ~payload.save
    THEN [result |-> Return(GenerateResponse(payload, segs, outs, FALSE)), posts |-> posts,
          db |-> <<>>]
    ELSE IF payload.project_title = NoText \/ Strip(payload.project_title) = <<>>
    THEN [result |-> HTTPException(400, <<"Project title is required when save=True.">>),
          posts |-> posts, db |-> <<>>]
    ELSE IF save_fails
    THEN [result |-> Return(GenerateResponse(payload, segs, outs, FALSE)), posts |-> posts,
          db |-> <<[call |-> "save_to_db", outcome |-> "raises"]>>]
    ELSE [result |-> Return(GenerateResponse(payload, segs, outs, TRUE)),
          posts |-> posts \o save_records(payload.project_title, payload.tone, outs,
                                          payload.user_id),
          db |-> <<[call |-> "save_to_db", outcome |-> "returns"]>>]

\* generate_content from "Optionally persist results" on: the response or the
\* HTTP error, and the rows of the posts table; lookup is what
\* db.get_user_by_id gives ("found", "missing", "raises"), save_fails whether
\* db.save_to_db raises
api_finish(payload, segs, outs, posts, lookup, save_fails) ==
    LET looked == IF payload.user_id # NoUser
                  THEN <<[call |-> "get_user_by_id", outcome |-> lookup]>> ELSE <<>>
    IN  IF ~payload.save
        THEN [result |-> Return(GenerateResponse(payload, segs, outs, FALSE)), posts |-> posts,
              db |-> <<>>]
        ELSE IF payload.project_title = NoText \/ Strip(payload.project_title) = <<>>
        THEN [result |-> HTTPException(400, <<"Project title is required when save=True.">>),
              posts |-> posts, db |-> <<>>]
        ELSE IF payload.user_id # NoUser /\ lookup = "raises"
        THEN [result |-> HTTPException(500, <<"Internal server error: ">>), posts |-> posts,
              db |-> looked]
        ELSE IF payload.user_id # NoUser /\ lookup = "missing"
        THEN [result |-> HTTPException(400, <<"Invalid user_id provided.">>), posts |-> posts,
              db |-> looked]
        ELSE IF save_fails
        THEN [result |-> Return(GenerateResponse(payload, segs, outs, FALSE)), posts |-> posts,
              db |-> Append(looked, [call |-> "save_to_db", outcome |-> "raises"])]
        ELSE [result |-> Return(GenerateResponse(payload, segs, outs, TRUE)),
              posts |-> posts \o save_records(payload.project_title, payload.tone, outs,
                                              payload.user_id),
              db |-> Append(looked, [call |-> "save_to_db", outcome |-> "returns"])]

\* what _generate_posts does before its loop: it returns early, lets an
\* exception escape, or enters the loop; health is what the health check gives
\* ("up", "down", "raises"), reply what client.generate_content gives
app_prepare(session, api_key, health, reply) ==
    LET segs == StripNonEmpty(session.segments)
        via_backend == session.use_backend /\ health = "up"
        checked == IF session.use_backend /\ health # "up" THEN <<"warning">> ELSE <<>>
        tried == IF via_backend THEN <<"error", "info">> ELSE checked
        pb == PromptBuilderInit(session.tone, session.platforms)
        built == build_prompts(pb.value, segs)
        stop(levels, value, shown) ==
            [kind |-> "return", notices |-> levels, value |-> value, reports |-> shown,
             segments |-> segs, prompts |-> <<>>]
    IN  IF segs = <<>> THEN stop(<<"warning">>, <<>>, <<>>)
        ELSE IF session.platforms = <<>> THEN stop(<<"warning">>, <<>>, <<>>)
        ELSE IF via_backend /\ ~reply.raised
        THEN stop(<<>>, IF reply.value.hasOutputs THEN reply.value.outputs ELSE <<>>,
                  <<100>>)
        ELSE IF pb.raised
        THEN [kind |-> "raise", notices |-> tried, value |-> pb, reports |-> <<>>,
              segments |-> segs, prompts |-> <<>>]
        ELSE IF built.raised
        THEN [kind |-> "raise", notices |-> tried, value |-> built, reports |-> <<>>,
              segments |-> segs, prompts |-> <<>>]
        ELSE IF ~api_key THEN stop(tried \o <<"error">>, <<>>, <<>>)
        ELSE IF TotalPrompts(built.value) = 0 THEN stop(tried \o <<"warning">>, <<>>, <<>>)
        ELSE [kind |-> "loop", notices |-> tried, value |-> <<>>, reports |-> <<>>,
              segments |-> segs, prompts |-> built.value]

\* ---------------------------------------------------------------- accounts
\* str.lower(), character by character
LowerChar(c) == IF c = "A" THEN "a" ELSE IF c = "B" THEN "b" ELSE c
LowerText(t) == [i \in 1..Len(t) |-> LowerChar(t[i])]

\* _hash_password(password, salt): salt, "$" and the SHA-256 digest of
\* "salt:password"; a digest stands for its preimage, digests do not collide
Sha256(preimage) == [sha256 |-> preimage]
hash_password(password, salt) == <<salt, "$", Sha256(<<salt, ":", password>>)>>

\* verify_password
verify_password(stored_hash, password) ==
    IF ~\E i \in 1..Len(stored_hash) : stored_hash[i] = "$" THEN FALSE
    ELSE hash_password(password, stored_hash[1]) = stored_hash

\* a row of the users table, and the row no query finds
UserRow(id, name, email, password_hash) ==
    [id |-> id, name |-> name, email |-> email, password_hash |-> password_hash]
NoRow == UserRow(NoUser, <<>>, <<>>, <<>>)

\* dict(user) without its "password_hash"
UserDict(row) == [id |-> row.id, name |-> row.name, email |-> row.email]
NoDict == UserDict(NoRow)

\* "SELECT * FROM users WHERE email = ?", (email.strip(),): the comparison
\* of the column is exact
get_user_by_email(table, email) ==
    IF \E i \in 1..Len(table) : table[i].email = Strip(email)
    THEN table[CHOOSE i \in 1..Len(table) : table[i].email = Strip(email)]
    ELSE NoRow

\* "SELECT * FROM users WHERE id = ?"
get_user_by_id(table, user_id) ==
    IF \E i \in 1..Len(table) : table[i].id = user_id
    THEN table[CHOOSE i \in 1..Len(table) : table[i].id = user_id]
    ELSE NoRow

\* the email column is UNIQUE: an INSERT of a stored email fails
IntegrityError == Raise("sqlite3.IntegrityError", <<"UNIQUE constraint failed: users.email">>)

\* insert_user: the row gets the next id, the email is stored stripped and
\* in lower case
insert_user(table, name, email, password_hash) ==
    IF \E i \in 1..Len(table) : table[i].email = LowerText(Strip(email))
    THEN [result |-> IntegrityError, users |-> table]
    ELSE [result |-> Return(Len(table) + 1),
          users |-> Append(table, UserRow(Len(table) + 1, Strip(name),
                                          LowerText(Strip(email)), password_hash))]

AccountExists == Raise("ValueError", <<"An account with this email already exists.">>)

\* register_user, run without interruption; salt is secrets.token_hex(16)
register_user(table, name, email, password, salt) ==
    LET inserted == insert_user(table, name, email, hash_password(password, salt))
        user == get_user_by_id(inserted.users, inserted.result.value)
    IN  IF get_user_by_email(table, email) # NoRow
        THEN [result |-> AccountExists, users |-> table]
        ELSE IF inserted.result.raised THEN inserted
        ELSE IF user # NoRow
        THEN [result |-> Return(UserDict(user)), users |-> inserted.users]
        ELSE [result |-> Return([id |-> inserted.result.value, name |-> name,
                                 email |-> email]),
              users |-> inserted.users]

\* authenticate_user: the user without the hash, or None
authenticate_user(table, email, password) ==
    LET user == get_user_by_email(table, email)
    IN  IF user = NoRow THEN NoDict
        ELSE IF ~verify_password(user.password_hash, password) THEN NoDict
        ELSE UserDict(user)

\* ------------------------------------------------------------------- state
VARIABLES
    text,            \* argument of split_into_segments
    min_words,       \* argument of split_into_segments
    segments,        \* its return value
    segPc,           \* "idle", "input" before the call, "done" after it
    tone_display,    \* PromptBuilder(tone_display, platform_labels)
    platform_labels,
    pbSegments,      \* argument of build_prompts
    builder,         \* outcome of the constructor: the object or the exception
    prompts,         \* outcome of build_prompts: the dict or the exception
    pbPc,            \* "idle", "new", "raised", "built", "done"
    preferred,       \* model_name or GEMINI_MODEL at construction
    catalog,         \* what the backend lists as its models
    model_names,     \* self._model_names
    current_model_index,  \* self._current_model_index
    model,           \* the name self.model is bound to
    nCalls,          \* generate_text calls made so far
    nSent,           \* those of them that reached the backend
    last,            \* the last generate_text call: prompt, index before it,
                     \* backend attempts, returned string or escaped exception
    history,         \* (candidate index, kind of outcome) of every attempt
    results,         \* argument of combine_segment_outputs
    combined,        \* its return value
    cmbPc,           \* "idle", "input" before the call, "done" after it
    entry,           \* the entry point of a batch: "api" (/generate), "app"
                     \* (_generate_posts), "lib" (GeminiConnector.generate)
    request,         \* its input: the payload, the session state, the prompts
    environ,         \* GEMINI_API_KEY set or not, how the backend behaves
    runPc,           \* "idle", "start", "loop", "finish", "done"
    prompts_by_platform,  \* the dict the loop iterates over
    batch_segments,  \* the segments of the batch
    platform_pos,    \* position of the loop in prompts_by_platform.items()
    prompt_pos,      \* prompts of that platform already sent
    responses,       \* the responses of that platform so far
    outputs,         \* outputs / combined_outputs
    completed,       \* completed of _generate_posts
    total_prompts,   \* total_prompts of _generate_posts
    reports,         \* the values passed to progress.progress, in order
    callLog,         \* the generate_text calls of the batch, in order
    notices,         \* the st.warning / st.error / st.info calls, in order
    ending,          \* how the entry point ended
    posts,           \* rows of the posts table
    dbCalls          \* the calls of utils.db the entry point made, with how they ended

\* the accounts
VARIABLES
    users,           \* rows of the users table
    authLog,         \* the calls of register_user and authenticate_user made one
                     \* after the other, with their results
    regEmail,        \* the email of the register_user calls that run together
    regPc,           \* where each of these calls stands
    regId,           \* user_id of each of these calls
    regOutcome       \* how each of these calls ended

\* the "Save Results" section of the page
VARIABLES
    saveSession,     \* st.session_state, with the project title typed in
    savePc,          \* "idle", "shown" while the section waits, "clicked" after a save
    saveNotices,     \* the st.warning / st.success calls of the click, in order
    saveRaised,      \* whether the click ended in an exception
    genCalls         \* generate_text calls made since the section was shown

\* the word limit of one text
VARIABLES
    limText,         \* text of enforce_word_limit
    max_words,       \* max_words of enforce_word_limit
    limited,         \* the pair (limited_text, count) it returns
    limSegments,     \* split_into_segments(limited_text)
    limPc            \* "ready" before the call, "done" after it

\* the extraction of the text of one response
VARIABLES
    response,        \* result of generate_content
    extracted,       \* the text generate_text returns for it
    extPc            \* "ready" before the extraction, "done" after it

segVars == <<text, min_words, segments, segPc>>
pbVars == <<tone_display, platform_labels, pbSegments, builder, prompts, pbPc>>

genVars == <<preferred, catalog, model_names, current_model_index, model,
             nCalls, nSent, last, history>>

cmbVars == <<results, combined, cmbPc>>

runVars == <<entry, request, environ, runPc, prompts_by_platform, batch_segments,
             platform_pos, prompt_pos, responses, outputs, completed,
             total_prompts, reports, callLog, notices, ending, posts, dbCalls>>

extVars == <<response, extracted, extPc>>

limVars == <<limText, max_words, limited, limSegments, limPc>>

savVars == <<saveSession, savePc, saveNotices, saveRaised, genCalls>>

usrVars == <<users, authLog, regEmail, regPc, regId, regOutcome>>

otherVars == <<extVars, limVars, savVars, usrVars>>

vars == <<segVars, pbVars, genVars, cmbVars, runVars, otherVars>>

NoCall == [prompt |-> <<>>, idxBefore |-> 0, attempts |-> <<>>, raised |-> FALSE,
           result |-> <<>>]

GenIdle ==
    /\ preferred = <<>>
    /\ catalog = ListingFails
    /\ model_names = <<>>
    /\ current_model_index = 0
    /\ model = <<>>
    /\ nCalls = 0
    /\ nSent = 0
    /\ last = NoCall
    /\ history = {}

SegIdle ==
    /\ text = <<>>
    /\ min_words = 0
    /\ segments = <<>>
    /\ segPc = "idle"

PbIdle ==
    /\ tone_display = None
    /\ platform_labels = <<>>
    /\ pbSegments = <<>>
    /\ builder = Return(None)
    /\ prompts = Return(<<>>)
    /\ pbPc = "idle"

\* how an entry point ends: still running, a returned value, an HTTP error
\* response, an exception that escapes
Pending == [kind |-> "pending", status |-> 0, detail |-> <<>>, value |-> <<>>]
Returned(v) == [kind |-> "returned", status |-> 200, detail |-> <<>>, value |-> v]
HttpError(e) == [kind |-> "http_error", status |-> e.status, detail |-> e.msg, value |-> <<>>]
Escaped(type, msg) ==
    [kind |-> "raised", status |-> 0, detail |-> <<type>> \o msg, value |-> <<>>]

RunIdle ==
    /\ entry = "idle"
    /\ request = <<>>
    /\ environ = <<>>
    /\ runPc = "idle"
    /\ prompts_by_platform = <<>>
    /\ batch_segments = <<>>
    /\ platform_pos = 0
    /\ prompt_pos = 0
    /\ responses = <<>>
    /\ outputs = <<>>
    /\ completed = 0
    /\ total_prompts = 0
    /\ reports = <<>>
    /\ callLog = <<>>
    /\ notices = <<>>
    /\ ending = Pending
    /\ posts = <<>>
    /\ dbCalls = <<>>

CmbIdle ==
    /\ results = <<>>
    /\ combined = <<>>
    /\ cmbPc = "idle"

NoResponse == [hasText |-> FALSE, text |-> <<>>, hasCandidates |-> FALSE, candidates |-> <<>>]

ExtIdle ==
    /\ response = NoResponse
    /\ extracted = NoText
    /\ extPc = "idle"

NoLimit == [text |-> NoText, count |-> 0]

LimIdle ==
    /\ limText = <<>>
    /\ max_words = 0
    /\ limited = NoLimit
    /\ limSegments = NoSegments
    /\ limPc = "idle"

NoSession ==
    [segments |-> <<>>, tone |-> "Professional", platforms |-> <<>>, platform_outputs |-> <<>>,
     project_title |-> <<>>, use_backend |-> TRUE, user |-> NoUser]

SavIdle ==
    /\ saveSession = NoSession
    /\ savePc = "idle"
    /\ saveNotices = <<>>
    /\ saveRaised = FALSE
    /\ genCalls = 0

UsrIdle ==
    /\ users = <<>>
    /\ authLog = <<>>
    /\ regEmail = <<>>
    /\ regPc = <<>>
    /\ regId = <<>>
    /\ regOutcome = <<>>

OtherIdle == ExtIdle /\ LimIdle /\ SavIdle /\ UsrIdle

\* ------------------------------------------------- segmentation, as a call
SegInit ==
    /\ OtherIdle
    /\ PbIdle
    /\ GenIdle
    /\ CmbIdle
    /\ RunIdle
    /\ text \in SeqsUpTo(Chars, MaxTextLen)
    /\ min_words \in 0..MaxMinWords
    /\ segments = <<>>
    /\ segPc = "input"

SplitIntoSegments ==
    /\ segPc = "input"
    /\ segments' = split_into_segments(text, min_words)
    /\ segPc' = "done"
    /\ UNCHANGED <<text, min_words, pbVars, genVars, cmbVars, runVars, otherVars>>

SegNext == SplitIntoSegments

SpecSeg == SegInit /\ [][SegNext]_vars

\* -------------------------------------------------- prompt building, calls
\* labels a request can carry: the display labels, an internal key used as a
\* label, and a label outside the enumeration
ToneLabels == {"Professional", "Casual", "Promotional", "professional"}
PlatformLabels == {"LinkedIn", "Instagram", "YouTube", "TikTok"}
\* segment texts: empty, blank, plain and padded
SegTexts == {<<>>, <<SP>>, <<"a">>, <<SP, "b", SP>>}

PbInit ==
    /\ OtherIdle
    /\ SegIdle
    /\ GenIdle
    /\ CmbIdle
    /\ RunIdle
    /\ tone_display \in ToneLabels
    /\ platform_labels \in SeqsUpTo(PlatformLabels, MaxPlatformLabels)
    /\ pbSegments \in SeqsUpTo(SegTexts, MaxSegments)
    /\ builder = Return(None)
    /\ prompts = Return(<<>>)
    /\ pbPc = "new"

\* prompt_builder = PromptBuilder(tone, platforms)
Construct ==
    /\ pbPc = "new"
    /\ builder' = PromptBuilderInit(tone_display, platform_labels)
    /\ pbPc' = IF builder'.raised THEN "raised" ELSE "built"
    /\ UNCHANGED <<tone_display, platform_labels, pbSegments, prompts, segVars, otherVars, genVars, cmbVars, runVars>>

\* prompts = prompt_builder.build_prompts(segments)
BuildPrompts ==
    /\ pbPc = "built"
    /\ prompts' = build_prompts(builder.value, pbSegments)
    /\ pbPc' = "done"
    /\ UNCHANGED <<tone_display, platform_labels, pbSegments, builder, segVars, otherVars, genVars, cmbVars, runVars>>

PbNext == Construct \/ BuildPrompts

SpecPrompt == PbInit /\ [][PbNext]_vars

\* ------------------------------------------------ generation client, calls
PreferredNames == {<<>>, <<"gemini-1.5-flash">>, <<"my-tuned-model">>}

\* listings of the backend: none, one with an embedding model, a new model
\* and a model of the static list, and one that lists a model twice
Catalogs ==
    {ListingFails,
     Listing(<< [name |-> <<"models/", "my-tuned-model">>,
                 methods |-> {"generateContent"}],
                [name |-> <<"models/", "gemini-2.0-flash">>,
                 methods |-> {"generate_content"}],
                [name |-> <<"gemini-2.0-flash">>,
                 methods |-> {"generateContent"}] >>),
     Listing(<< [name |-> <<"models/", "embedding-001">>,
                 methods |-> {"embedContent"}],
                [name |-> <<"models/", "gemini-2.0-flash">>,
                 methods |-> {"generateContent", "countTokens"}],
                [name |-> <<"models/", "gemini-1.5-flash">>,
                 methods |-> {"generateContent"}] >>)}

\* messages of the failures of the backend, by their kind
UnavailableMsgs ==
    {<<"404", "model is gone">>, <<"Model", "Not Found">>,
     <<"generateContent", "is", "not supported">>}
OtherMsgs ==
    {<<"429", "quota exceeded">>, <<"503", "connection reset">>, <<"malformed response">>}
ErrorMsgs == UnavailableMsgs \cup OtherMsgs

\* responses: a top-level text, candidates with parts, and nothing at all
Responses ==
    {[hasText |-> TRUE, text |-> <<SP, "a">>, hasCandidates |-> FALSE, candidates |-> <<>>],
     [hasText |-> FALSE, text |-> <<>>, hasCandidates |-> TRUE,
      candidates |-> << [hasContent |-> TRUE,
                         parts |-> << [hasText |-> TRUE, text |-> <<"a">>],
                                      [hasText |-> TRUE, text |-> <<"b">>] >>] >>],
     [hasText |-> TRUE, text |-> <<>>, hasCandidates |-> TRUE, candidates |-> <<>>]}

Outcomes == {Raised(m) : m \in ErrorMsgs} \cup {Responded(r) : r \in Responses}

\* a blank prompt and a prompt of the prompt builder
Prompts == {<<SP, NL>>, <<"linkedin/professional Content:", "a">>}

Kind(outcome) ==
    IF outcome.ok THEN "ok"
    ELSE IF outcome.msg \in UnavailableMsgs THEN "unavailable" ELSE "other"

\* connector = GeminiConnector()
GenInit ==
    /\ OtherIdle
    /\ SegIdle
    /\ PbIdle
    /\ CmbIdle
    /\ RunIdle
    /\ preferred \in PreferredNames
    /\ catalog \in Catalogs
    /\ model_names = candidate_models(preferred, catalog)
    /\ current_model_index = 0
    /\ model = model_names[1]
    /\ nCalls = 0
    /\ nSent = 0
    /\ last = NoCall
    /\ history = {}

Self == [model_names |-> model_names,
         current_model_index |-> current_model_index,
         model |-> model]

\* the backend outcomes a call consumes: none for a blank prompt, a second
\* one only when the call retries, a listing only when it builds the tip
AnOutcome == CHOOSE o \in Outcomes : TRUE
FirstOutcomes(self, prompt) ==
    IF generate_text(self, prompt, AnOutcome, AnOutcome, ListingFails).attempts = <<>>
    THEN {AnOutcome} ELSE Outcomes
RetryOutcomes(self, prompt, first) ==
    IF Len(generate_text(self, prompt, first, AnOutcome, ListingFails).attempts) = 2
    THEN Outcomes ELSE {AnOutcome}
TipListings(self, prompt, first) ==
    LET r == generate_text(self, prompt, first, AnOutcome, ListingFails)
    IN  IF Len(r.attempts) = 1 /\ ~first.ok THEN {catalog, ListingFails} ELSE {catalog}

\* connector.generate_text(prompt)
GenerateText ==
    /\ nCalls < MaxCalls
    /\ \E prompt \in Prompts :
       \E first \in FirstOutcomes(Self, prompt) :
       \E retry \in RetryOutcomes(Self, prompt, first) :
       \E listing \in TipListings(Self, prompt, first) :
       \E r \in {generate_text(Self, prompt, first, retry, listing)} :
              /\ current_model_index' = r.self.current_model_index
              /\ model' = r.self.model
              /\ model_names' = r.self.model_names
              /\ last' = [prompt |-> prompt, idxBefore |-> current_model_index,
                          attempts |-> r.attempts, raised |-> r.raised,
                          result |-> r.result]
              /\ nSent' = IF r.attempts # <<>> THEN nSent + 1 ELSE nSent
              /\ history' = history \cup
                    {<<r.attempts[i].index, Kind(r.attempts[i].outcome)>> :
                        i \in 1..Len(r.attempts)}
    /\ nCalls' = nCalls + 1
    /\ UNCHANGED <<preferred, catalog, segVars, otherVars, pbVars, cmbVars, runVars>>

GenNext == GenerateText

SpecGen == GenInit /\ [][GenNext]_vars

\* ------------------------------------------------ combining results, a call
\* results of generate_text: empty, blank, plain and padded
ResultTexts == {<<>>, <<SP, SP>>, <<"B">>, <<"A">>, <<NL, "a", SP>>}

CmbInit ==
    /\ OtherIdle
    /\ SegIdle
    /\ PbIdle
    /\ GenIdle
    /\ RunIdle
    /\ results \in SeqsUpTo(ResultTexts, MaxResults)
    /\ combined = <<>>
    /\ cmbPc = "input"

\* GeminiConnector.combine_segment_outputs(responses)
CombineSegmentOutputs ==
    /\ cmbPc = "input"
    /\ combined' = combine_segment_outputs(results)
    /\ cmbPc' = "done"
    /\ UNCHANGED <<results, segVars, otherVars, pbVars, genVars, runVars>>

CmbNext == CombineSegmentOutputs

SpecCombine == CmbInit /\ [][CmbNext]_vars

\* ------------------------------------------------------ the batch pipeline
\* requests to /generate: text and segments absent, blank or present, labels
\* valid or not, the options of saving
ApiTexts == {NoText, <<SP>>, <<"a">>, <<"a", NL, NL, "b">>}
ApiSegmentLists ==
    {NoSegments, <<>>, << <<SP>> >>, << <<"a">> >>, << <<"a">>, <<SP, "b">> >>}
ApiTones == {"Professional", "professional"}
ApiPlatformLists == {<<>>, <<"LinkedIn">>, <<"Instagram", "LinkedIn">>, <<"TikTok">>}
KnownUsers == {1}
SaveOptions ==
    {[save |-> FALSE, project_title |-> NoText, user_id |-> NoUser],
     [save |-> TRUE, project_title |-> <<SP>>, user_id |-> NoUser],
     [save |-> TRUE, project_title |-> <<"a", SP>>, user_id |-> NoUser],
     [save |-> TRUE, project_title |-> <<"a">>, user_id |-> 1],
     [save |-> TRUE, project_title |-> <<"a">>, user_id |-> 2]}

ApiRequests ==
    {[text |-> t, segments |-> sg, tone |-> tn, platforms |-> pl, save |-> o.save,
      project_title |-> o.project_title, user_id |-> o.user_id] :
        t \in ApiTexts, sg \in ApiSegmentLists, tn \in ApiTones,
        pl \in ApiPlatformLists, o \in SaveOptions}

\* session states of the Streamlit page: the tone comes from a select box and
\* the platforms from a multi-select, so both are labels of the enumerations
SessionSegmentLists == {<<>>, << <<SP>> >>, << <<"a">> >>, << <<"a">>, <<"b", SP>> >>}
SessionTones == {"Professional", "Casual"}
SessionPlatformLists == {<<>>, <<"LinkedIn">>, <<"YouTube", "LinkedIn">>}

Sessions ==
    {[segments |-> sg, tone |-> tn, platforms |-> pl, use_backend |-> ub] :
        sg \in SessionSegmentLists, tn \in SessionTones,
        pl \in SessionPlatformLists, ub \in BOOLEAN}

\* a long session: n equal segments for two platforms
LongSession(n) ==
    [segments |-> [i \in 1..n |-> <<"a">>], tone |-> "Professional",
     platforms |-> <<"LinkedIn", "Instagram">>, use_backend |-> FALSE]

\* arguments of GeminiConnector.generate: no platform, a platform without
\* prompts before one with a blank prompt among two others
LibPromptDicts ==
    {<<>>,
     << [key |-> "linkedin", value |-> << <<"linkedin/casual Content:", "a">> >>] >>,
     << [key |-> "youtube", value |-> <<>>],
        [key |-> "instagram",
         value |-> << <<"instagram/casual Content:", "a">>, <<SP>>,
                      <<"instagram/casual Content:", "b">> >>] >>}

\* replies of the backend to client.generate_content
BackendReplies ==
    {Raise("RuntimeError", <<"Backend request failed: ">>),
     Return([hasOutputs |-> TRUE, outputs |-> <<[key |-> "linkedin", value |-> <<"a">>]>>]),
     Return([hasOutputs |-> FALSE, outputs |-> <<>>])}

BatchInit ==
    /\ OtherIdle
    /\ SegIdle
    /\ PbIdle
    /\ CmbIdle
    /\ preferred = <<>>
    /\ catalog = ListingFails
    /\ current_model_index = 0
    /\ nCalls = 0
    /\ nSent = 0
    /\ last = NoCall
    /\ history = {}
    /\ \/ /\ entry = "api"
          /\ request \in ApiRequests
          /\ environ \in [api_key : BOOLEAN, backend : {"any"}]
          /\ model_names = <<>>
          /\ model = <<>>
       \/ /\ entry = "app"
          /\ request \in Sessions
          /\ environ \in [api_key : BOOLEAN, backend : {"any"}]
          /\ model_names = <<>>
          /\ model = <<>>
       \/ /\ entry = "app"
          /\ request \in {LongSession(n) : n \in 1..MaxLongSegments}
          /\ environ = [api_key |-> TRUE, backend |-> "steady"]
          /\ model_names = <<>>
          /\ model = <<>>
       \/ /\ entry = "lib"
          /\ request \in LibPromptDicts
          /\ environ = [api_key |-> TRUE, backend |-> "any"]
          /\ model_names = candidate_models(preferred, catalog)
          /\ model = model_names[1]
    /\ runPc = "start"
    /\ prompts_by_platform = <<>>
    /\ batch_segments = <<>>
    /\ platform_pos = 0
    /\ prompt_pos = 0
    /\ responses = <<>>
    /\ outputs = <<>>
    /\ completed = 0
    /\ total_prompts = 0
    /\ reports = <<>>
    /\ callLog = <<>>
    /\ notices = <<>>
    /\ ending = Pending
    /\ posts = <<>>
    /\ dbCalls = <<>>

\* the loop is entered at the first platform that has a prompt
EnterLoop(d) ==
    /\ prompts_by_platform' = d
    /\ platform_pos' = NextPlatform(d, 1)
    /\ outputs' = StoreEmpty(d, 1, NextPlatform(d, 1), <<>>)
    /\ prompt_pos' = 0
    /\ responses' = <<>>
    /\ runPc' = IF NextPlatform(d, 1) > Len(d) THEN "finish" ELSE "loop"

\* connector = GeminiConnector()
NewConnector ==
    /\ model_names' = candidate_models(preferred, catalog)
    /\ current_model_index' = 0
    /\ model' = candidate_models(preferred, catalog)[1]

\* POST /generate, up to the loop over the platforms
ApiStart ==
    /\ entry = "api"
    /\ runPc = "start"
    /\ \E prep \in {api_prepare(request, environ.api_key)} :
          IF prep.raised
          THEN /\ ending' = HttpError(prep)
               /\ runPc' = "done"
               /\ UNCHANGED <<prompts_by_platform, batch_segments, platform_pos, prompt_pos,
                              responses, outputs, model_names, current_model_index, model>>
          ELSE /\ batch_segments' = prep.value.segments
               /\ NewConnector
               /\ EnterLoop(prep.value.prompts)
               /\ UNCHANGED ending
    /\ UNCHANGED <<dbCalls, entry, request, environ, completed, total_prompts, reports, callLog,
                   notices, posts, preferred, catalog, nCalls, nSent, last, history,
                   segVars, otherVars, pbVars, cmbVars>>

\* _generate_posts, up to its loop
AppStart ==
    /\ entry = "app"
    /\ runPc = "start"
    /\ \E health \in {"up", "down", "raises"} :
       \E reply \in BackendReplies :
       \E prep \in {app_prepare(request, environ.api_key, health, reply)} :
          /\ notices' = prep.notices
          /\ reports' = prep.reports
          /\ batch_segments' = prep.segments
          /\ IF prep.kind = "loop"
             THEN /\ NewConnector
                  /\ EnterLoop(prep.prompts)
                  /\ total_prompts' = TotalPrompts(prep.prompts)
                  /\ UNCHANGED ending
             ELSE /\ ending' = IF prep.kind = "return" THEN Returned(prep.value)
                                ELSE Escaped(prep.value.type, prep.value.msg)
                  /\ outputs' = prep.value
                  /\ runPc' = "done"
                  /\ UNCHANGED <<prompts_by_platform, platform_pos, prompt_pos, responses,
                                 total_prompts, model_names, current_model_index, model>>
    /\ UNCHANGED <<dbCalls, entry, request, environ, completed, callLog, posts, preferred, catalog,
                   nCalls, nSent, last, history, segVars, otherVars, pbVars, cmbVars>>

\* connector.generate(prompts_by_platform), up to its loop
LibStart ==
    /\ entry = "lib"
    /\ runPc = "start"
    /\ EnterLoop(request)
    /\ UNCHANGED <<dbCalls, entry, request, environ, batch_segments, completed, total_prompts,
                   reports, callLog, notices, ending, posts, genVars, segVars, otherVars, pbVars,
                   cmbVars>>

\* what the backend can answer to a prompt: a text that echoes it, a rate
\* limit, a missing model; a steady backend always answers
Echo(prompt) ==
    [hasText |-> TRUE, text |-> <<"re:">> \o prompt, hasCandidates |-> FALSE,
     candidates |-> <<>>]

BatchOutcomes(prompt) ==
    IF environ.backend = "steady" THEN {Responded(Echo(prompt))}
    ELSE {Responded(Echo(prompt)), Raised(<<"429", "quota exceeded">>),
          Raised(<<"404", "model is gone">>)}

BatchFirst(self, prompt) ==
    IF generate_text(self, prompt, AnOutcome, AnOutcome, ListingFails).attempts = <<>>
    THEN {AnOutcome} ELSE BatchOutcomes(prompt)

BatchRetry(self, prompt, first) ==
    IF Len(generate_text(self, prompt, first, AnOutcome, ListingFails).attempts) = 2
    THEN BatchOutcomes(prompt) ELSE {AnOutcome}

\* whether the last backend attempt of a call failed
Failed(attempts) == attempts # <<>> /\ ~attempts[Len(attempts)].outcome.ok
FailureMsg(attempts) == IF Failed(attempts) THEN attempts[Len(attempts)].outcome.msg ELSE <<>>

\* one turn of the inner loop: a generate_text call and what follows it up to
\* the next call; handler is the entry point the loop belongs to
LoopStep(handler) ==
    /\ runPc = "loop"
    /\ \E platform \in {prompts_by_platform[platform_pos]} :
       \E prompt \in {next_prompt(platform.value, prompt_pos)} :
       \E first \in BatchFirst(Self, prompt) :
       \E retry \in BatchRetry(Self, prompt, first) :
       \E r \in {generate_text(Self, prompt, first, retry, catalog)} :
       \E got \in {Append(responses, r.result)} :
       \E next \in {NextPlatform(prompts_by_platform, platform_pos + 1)} :
       \E moves \in {r.raised \/ prompt_pos + 1 = Len(platform.value)} :
          /\ current_model_index' = r.self.current_model_index
          /\ model' = r.self.model
          /\ model_names' = r.self.model_names
          /\ last' = [prompt |-> prompt, idxBefore |-> current_model_index,
                      attempts |-> r.attempts, raised |-> r.raised, result |-> r.result]
          /\ nSent' = IF r.attempts # <<>> THEN nSent + 1 ELSE nSent
          /\ history' = history \cup
                {<<r.attempts[i].index, Kind(r.attempts[i].outcome)>> :
                    i \in 1..Len(r.attempts)}
          /\ callLog' = Append(callLog,
                               [platform |-> platform.key, index |-> prompt_pos + 1,
                                prompt |-> prompt, failed |-> Failed(r.attempts),
                                msg |-> FailureMsg(r.attempts), raised |-> r.raised,
                                result |-> r.result])
          /\ IF r.raised /\ handler # "api"
             THEN /\ ending' = Escaped("Exception", r.result)
                  /\ runPc' = "done"
                  /\ UNCHANGED <<platform_pos, prompt_pos, responses, outputs, completed,
                                 reports>>
             ELSE /\ outputs' =
                        IF moves
                        THEN StoreEmpty(prompts_by_platform, platform_pos + 1, next,
                                        DictSet(outputs, platform.key,
                                                IF r.raised THEN <<ErrorPrefix>> \o r.result
                                                ELSE IF handler = "lib" THEN got
                                                ELSE combine_segment_outputs(got)))
                        ELSE outputs
                  /\ platform_pos' = IF moves THEN next ELSE platform_pos
                  /\ prompt_pos' = IF moves THEN 0 ELSE prompt_pos + 1
                  /\ responses' = IF moves THEN <<>> ELSE got
                  /\ runPc' = IF moves /\ next > Len(prompts_by_platform)
                              THEN "finish" ELSE "loop"
                  /\ IF handler = "app"
                     THEN /\ completed' = account(completed, total_prompts, reports).completed
                          /\ reports' = account(completed, total_prompts, reports).reports
                     ELSE UNCHANGED <<completed, reports>>
                  /\ UNCHANGED ending
    /\ nCalls' = nCalls + 1
    /\ UNCHANGED <<dbCalls, entry, request, environ, prompts_by_platform, batch_segments,
                   total_prompts, notices, posts, preferred, catalog, segVars, otherVars, pbVars,
                   cmbVars>>

\* generate_content: responses = [connector.generate_text(prompt) ...]
ApiLoopStep == entry = "api" /\ LoopStep("api")

\* _generate_posts: responses.append(connector.generate_text(prompt)) ...
AppLoopStep == entry = "app" /\ LoopStep("app")

\* GeminiConnector.generate: responses = [self.generate_text(prompt) ...]
LibLoopStep == entry = "lib" /\ LoopStep("lib")

\* generate_content after the loop: saving, and the response
ApiFinish ==
    /\ entry = "api"
    /\ runPc = "finish"
    /\ \E lookup \in (IF request.user_id \in KnownUsers THEN {"found", "raises"}
                      ELSE {"missing", "raises"}) :
       \E save_fails \in BOOLEAN :
       \E fin \in {api_finish(request, batch_segments, outputs, posts, lookup, save_fails)} :
          /\ ending' = IF fin.result.raised THEN HttpError(fin.result)
                       ELSE Returned(fin.result.value)
          /\ posts' = fin.posts
          /\ dbCalls' = fin.db
    /\ runPc' = "done"
    /\ UNCHANGED <<entry, request, environ, prompts_by_platform, batch_segments,
                   platform_pos, prompt_pos, responses, outputs, completed, total_prompts,
                   reports, callLog, notices, genVars, segVars, otherVars, pbVars, cmbVars>>

\* progress.empty(); return combined_outputs  /  return outputs
ReturnOutputs ==
    /\ runPc = "finish"
    /\ ending' = Returned(outputs)
    /\ runPc' = "done"
    /\ UNCHANGED <<dbCalls, entry, request, environ, prompts_by_platform, batch_segments,
                   platform_pos, prompt_pos, responses, outputs, completed, total_prompts,
                   reports, callLog, notices, posts, genVars, segVars, otherVars, pbVars, cmbVars>>

AppFinish == entry = "app" /\ ReturnOutputs

LibFinish == entry = "lib" /\ ReturnOutputs

BatchNext ==
    \/ ApiStart \/ ApiLoopStep \/ ApiFinish
    \/ AppStart \/ AppLoopStep \/ AppFinish
    \/ LibStart \/ LibLoopStep \/ LibFinish

SpecBatch == BatchInit /\ [][BatchNext]_vars

\* ------------------------------------------- response extraction, as a call
\* the parts of a content that carry a text, and one that has no such attribute
ResponseParts ==
    {[hasText |-> TRUE, text |-> <<"a">>], [hasText |-> TRUE, text |-> <<"b">>]}
NoTextPart == [hasText |-> FALSE, text |-> <<>>]

\* candidates: without a content, with a list of parts, with a part to skip
ResponseCandidates ==
    {[hasContent |-> FALSE, parts |-> <<>>],
     [hasContent |-> TRUE, parts |-> <<NoTextPart, [hasText |-> TRUE, text |-> <<"b">>]>>]}
        \cup {[hasContent |-> TRUE, parts |-> ps] : ps \in SeqsUpTo(ResponseParts, MaxParts)}

\* the top-level text: no attribute, empty, blank, padded
TopLevelTexts ==
    {[hasText |-> FALSE, text |-> <<>>], [hasText |-> TRUE, text |-> <<>>],
     [hasText |-> TRUE, text |-> <<SP>>], [hasText |-> TRUE, text |-> <<SP, "a", NL>>]}

ExtractResponses ==
    {[hasText |-> t.hasText, text |-> t.text, hasCandidates |-> FALSE, candidates |-> <<>>] :
        t \in TopLevelTexts}
    \cup {[hasText |-> t.hasText, text |-> t.text, hasCandidates |-> TRUE, candidates |-> cs] :
            t \in TopLevelTexts, cs \in SeqsUpTo(ResponseCandidates, MaxCandidates)}

ExtInit ==
    /\ LimIdle
    /\ SavIdle
    /\ UsrIdle
    /\ SegIdle
    /\ PbIdle
    /\ GenIdle
    /\ CmbIdle
    /\ RunIdle
    /\ response \in ExtractResponses
    /\ extracted = NoText
    /\ extPc = "ready"

\* lines 79-90 of generate_text, for the result of a backend call that answered
ExtractResponseText ==
    /\ extPc = "ready"
    /\ extracted' = ExtractText(response)
    /\ extPc' = "done"
    /\ UNCHANGED <<response, segVars, pbVars, genVars, cmbVars, runVars, limVars, savVars, usrVars>>

ExtNext == ExtractResponseText

SpecExtract == ExtInit /\ [][ExtNext]_vars

\* ------------------------------------------------- the word limit, as a call
LimInit ==
    /\ SegIdle
    /\ PbIdle
    /\ GenIdle
    /\ CmbIdle
    /\ RunIdle
    /\ ExtIdle
    /\ SavIdle
    /\ UsrIdle
    /\ limText \in SeqsUpTo(Chars, MaxLimitTextLen)
    /\ max_words \in 0..MaxLimitWords
    /\ limited = NoLimit
    /\ limSegments = NoSegments
    /\ limPc = "ready"

\* limited_text, _ = enforce_word_limit(text, max_words)
\* segments = split_into_segments(limited_text)
EnforceWordLimit ==
    /\ limPc = "ready"
    /\ \E r \in {enforce_word_limit(limText, max_words)} :
          /\ limited' = r
          /\ limSegments' = split_into_segments(r.text, MIN_WORDS_PER_SEGMENT)
    /\ limPc' = "done"
    /\ UNCHANGED <<limText, max_words, segVars, pbVars, genVars, cmbVars, runVars, extVars, savVars, usrVars>>

LimNext == EnforceWordLimit

SpecLimit == LimInit /\ [][LimNext]_vars

\* ---------------------------------------------- "Save to Library", a click
\* a connector as GeminiConnector() leaves it when discovery finds nothing
FreshSelf ==
    [model_names |-> candidate_models(<<>>, ListingFails), current_model_index |-> 0,
     model |-> candidate_models(<<>>, ListingFails)[1]]

\* the loop of generate_content over the platforms and their prompts, against
\* a backend that answers every prompt: the combined output of each platform
steady_outputs(d) ==
    [i \in 1..Len(d) |->
        [key |-> d[i].key,
         value |-> combine_segment_outputs(
                       [j \in 1..Len(d[i].value) |->
                           generate_text(FreshSelf, d[i].value[j],
                                         Responded(Echo(d[i].value[j])),
                                         AnOutcome, ListingFails).result])]]

\* the body of BackendClient.generate_content for the save: the JSON payload
save_payload(session) ==
    [text |-> NoText,
     segments |-> IF session.segments # <<>> THEN session.segments ELSE NoSegments,
     tone |-> session.tone, platforms |-> session.platforms, save |-> TRUE,
     project_title |-> Strip(session.project_title), user_id |-> session.user]

\* POST /generate as the save sends it, after prep, the outcome of its
\* preparation: the response or the HTTP error, the rows of the posts table
\* and the generate_text calls of the request
backend_generate(payload, prep, rows, lookup, save_fails) ==
    IF prep.raised THEN [result |-> prep, posts |-> rows, calls |-> 0]
    ELSE [result |-> api_finish(payload, prep.value.segments,
                                steady_outputs(prep.value.prompts), rows, lookup,
                                save_fails).result,
          posts |-> api_finish(payload, prep.value.segments,
                               steady_outputs(prep.value.prompts), rows, lookup,
                               save_fails).posts,
          calls |-> TotalPrompts(prep.value.prompts)]

\* _render_save_section, the branch of the "Save to Library" button: health
\* is what client.health_check() gives ("up", "down", "raises"), reply what
\* the backend does with the request, direct_fails whether db.save_to_db
\* raises in the page
save_to_library(session, rows, health, reply, direct_fails) ==
    LET sent == session.use_backend /\ health = "up"
    IN  IF Strip(session.project_title) = <<>>
        THEN [posts |-> rows, notices |-> <<"warning">>, raised |-> FALSE, calls |-> 0]
        ELSE IF sent /\ ~reply.result.raised
        THEN [posts |-> reply.posts, notices |-> <<"success">>, raised |-> FALSE,
              calls |-> reply.calls]
        ELSE IF direct_fails
        THEN [posts |-> IF sent THEN reply.posts ELSE rows, notices |-> <<>>,
              raised |-> TRUE, calls |-> IF sent THEN reply.calls ELSE 0]
        ELSE [posts |-> (IF sent THEN reply.posts ELSE rows)
                            \o save_records(Strip(session.project_title), session.tone,
                                            session.platform_outputs, session.user),
              notices |-> <<"success">>, raised |-> FALSE,
              calls |-> IF sent THEN reply.calls ELSE 0]

\* the outputs the generation left in the session
generated_outputs(segs, tone, platforms) ==
    steady_outputs(build_prompts(PromptBuilderInit(tone, platforms).value,
                                 StripNonEmpty(segs)).value)

\* what the user types into an output box or into the title box
EditedTexts == {<<"edited">>, <<SP>>}
TitleTexts == {<<>>, <<SP>>, <<"t", SP>>}

SaveSessions ==
    {[segments |-> sg, tone |-> "Professional", platforms |-> pl,
      platform_outputs |-> generated_outputs(sg, "Professional", pl),
      project_title |-> tt, use_backend |-> ub, user |-> u] :
        sg \in {<< <<"a">> >>, << <<"a">>, <<"b", SP>> >>},
        pl \in {<<"LinkedIn">>, <<"YouTube", "LinkedIn">>},
        tt \in TitleTexts, ub \in BOOLEAN, u \in {NoUser} \cup KnownUsers}

SavInit ==
    /\ SegIdle
    /\ PbIdle
    /\ GenIdle
    /\ CmbIdle
    /\ RunIdle
    /\ ExtIdle
    /\ LimIdle
    /\ UsrIdle
    /\ saveSession \in SaveSessions
    /\ savePc = "shown"
    /\ saveNotices = <<>>
    /\ saveRaised = FALSE
    /\ genCalls = 0

RunFrame ==
    <<entry, request, environ, runPc, prompts_by_platform, batch_segments, platform_pos,
      prompt_pos, responses, outputs, completed, total_prompts, reports, callLog, notices,
      ending, dbCalls>>

\* _render_generated_outputs: the user rewrites the text of one output box
EditOutput ==
    /\ savePc = "shown"
    /\ \E i \in 1..Len(saveSession.platform_outputs), t \in EditedTexts :
          saveSession' = [saveSession EXCEPT !.platform_outputs[i].value = t]
    /\ UNCHANGED <<savePc, saveNotices, saveRaised, genCalls, posts, RunFrame,
                   segVars, pbVars, genVars, cmbVars, extVars, limVars, usrVars>>

\* the "Save to Library" button is pressed
SaveToLibrary ==
    /\ savePc = "shown"
    /\ \E health \in (IF saveSession.use_backend /\ Strip(saveSession.project_title) # <<>>
                      THEN {"up", "down", "raises"} ELSE {"down"}) :
       \E api_key \in (IF health = "up" THEN BOOLEAN ELSE {TRUE}) :
       \E lookup \in (IF health = "up" /\ api_key /\ saveSession.user # NoUser
                      THEN {"found", "raises"} ELSE {"found"}) :
       \E save_fails \in (IF health = "up" /\ api_key /\ lookup = "found"
                          THEN BOOLEAN ELSE {FALSE}) :
       \E direct_fails \in (IF Strip(saveSession.project_title) # <<>>
                            THEN BOOLEAN ELSE {FALSE}) :
       \E prep \in {api_prepare(save_payload(saveSession), api_key)} :
       \E reply \in {backend_generate(save_payload(saveSession), prep, posts, lookup,
                                      save_fails)} :
       \E r \in {save_to_library(saveSession, posts, health, reply, direct_fails)} :
          /\ posts' = r.posts
          /\ saveNotices' = r.notices
          /\ saveRaised' = r.raised
          /\ genCalls' = genCalls + r.calls
    /\ savePc' = "clicked"
    /\ UNCHANGED <<saveSession, RunFrame, segVars, pbVars, genVars, cmbVars, extVars, limVars, usrVars>>

SavNext == EditOutput \/ SaveToLibrary

SpecSave == SavInit /\ [][SavNext]_vars

\* ------------------------------------------- accounts, one call at a time
Names == {<<"n">>}
Emails == {<<"a">>, <<"A">>, <<"b", SP>>}
Passwords == {"p", "q"}
Salts == {"s1", "s2"}

\* how a call ended: the exception it raised or the value it returned
Outcome(r) ==
    IF r.raised THEN [raised |-> TRUE, type |-> r.type, msg |-> r.msg, value |-> NoDict]
    ELSE [raised |-> FALSE, type |-> "", msg |-> <<>>, value |-> r.value]
NotCalled == [raised |-> FALSE, type |-> "", msg |-> <<>>, value |-> NoDict]

OthersIdle ==
    /\ SegIdle
    /\ PbIdle
    /\ GenIdle
    /\ CmbIdle
    /\ RunIdle
    /\ ExtIdle
    /\ LimIdle
    /\ SavIdle

OthersFrame == <<segVars, pbVars, genVars, cmbVars, runVars, extVars, limVars, savVars>>

AuthInit ==
    /\ OthersIdle
    /\ users = <<>>
    /\ authLog = <<>>
    /\ regEmail = <<>>
    /\ regPc = <<>>
    /\ regId = <<>>
    /\ regOutcome = <<>>

\* register_user(name, email, password)
RegisterUser ==
    /\ Len(authLog) < MaxAuthCalls
    /\ \E name \in Names, email \in Emails, password \in Passwords, salt \in Salts :
       \E r \in {register_user(users, name, email, password, salt)} :
          /\ users' = r.users
          /\ authLog' = Append(authLog,
                               [op |-> "register_user", email |-> email,
                                password |-> password, result |-> Outcome(r.result),
                                before |-> users, after |-> r.users])
    /\ UNCHANGED <<regEmail, regPc, regId, regOutcome, OthersFrame>>

\* authenticate_user(email, password)
AuthenticateUser ==
    /\ Len(authLog) < MaxAuthCalls
    /\ \E email \in Emails, password \in Passwords :
          authLog' = Append(authLog,
                            [op |-> "authenticate_user", email |-> email,
                             password |-> password,
                             result |-> Outcome(Return(authenticate_user(users, email,
                                                                        password))),
                             before |-> users, after |-> users])
    /\ UNCHANGED <<users, regEmail, regPc, regId, regOutcome, OthersFrame>>

AuthNext == RegisterUser \/ AuthenticateUser

SpecAuth == AuthInit /\ [][AuthNext]_vars

\* ------------------------------------- accounts, registrations run together
\* the sessions that register at the same time, each in its own thread with
\* its own connections
Procs == 1..MaxProcs

RegInit ==
    /\ OthersIdle
    /\ users = <<>>
    /\ authLog = <<>>
    /\ regEmail \in Emails
    /\ regPc = [p \in Procs |-> "check"]
    /\ regId = [p \in Procs |-> NoUser]
    /\ regOutcome = [p \in Procs |-> NotCalled]

\* existing = db.get_user_by_email(email); if existing: raise ValueError(...)
RegCheck(p) ==
    /\ regPc[p] = "check"
    /\ IF get_user_by_email(users, regEmail) # NoRow
       THEN /\ regOutcome' = [regOutcome EXCEPT ![p] = Outcome(AccountExists)]
            /\ regPc' = [regPc EXCEPT ![p] = "done"]
       ELSE /\ regPc' = [regPc EXCEPT ![p] = "insert"]
            /\ UNCHANGED regOutcome
    /\ UNCHANGED <<users, authLog, regEmail, regId, OthersFrame>>

\* user_id = db.insert_user(name=name, email=email, password_hash=password_hash)
RegInsert(p) ==
    /\ regPc[p] = "insert"
    /\ \E name \in Names, password \in Passwords, salt \in Salts :
       \E r \in {insert_user(users, name, regEmail, hash_password(password, salt))} :
          /\ users' = r.users
          /\ IF r.result.raised
             THEN /\ regOutcome' = [regOutcome EXCEPT ![p] = Outcome(r.result)]
                  /\ regPc' = [regPc EXCEPT ![p] = "done"]
                  /\ UNCHANGED regId
             ELSE /\ regId' = [regId EXCEPT ![p] = r.result.value]
                  /\ regPc' = [regPc EXCEPT ![p] = "fetch"]
                  /\ UNCHANGED regOutcome
    /\ UNCHANGED <<authLog, regEmail, OthersFrame>>

\* user = db.get_user_by_id(user_id); return the user without its hash
RegFetch(p) ==
    /\ regPc[p] = "fetch"
    /\ LET user == get_user_by_id(users, regId[p])
       IN  regOutcome' = [regOutcome EXCEPT ![p] =
                             Outcome(Return(IF user # NoRow THEN UserDict(user)
                                            ELSE [id |-> regId[p], name |-> <<"n">>,
                                                  email |-> regEmail]))]
    /\ regPc' = [regPc EXCEPT ![p] = "done"]
    /\ UNCHANGED <<users, authLog, regEmail, regId, OthersFrame>>

RegNext == \E p \in Procs : RegCheck(p) \/ RegInsert(p) \/ RegFetch(p)

SpecRegister == RegInit /\ [][RegNext]_vars

\* ================================================================== claims
\* helpers of the claims
Range(f) == {f[x] : x \in DOMAIN f}

\* segs cuts paras into consecutive, non-empty runs, each joined by a blank line
RECURSIVE CutsIntoRuns(_, _)
CutsIntoRuns(segs, paras) ==
    IF segs = <<>> THEN paras = <<>>
    ELSE \E k \in 1..Len(paras) :
            /\ segs[1] = Join(SubSeq(paras, 1, k), BlankLine)
            /\ CutsIntoRuns(Tail(segs), SubSeq(paras, k + 1, Len(paras)))

HasLetter(t) == \E i \in 1..Len(t) : t[i] \in Letters

\* C1: every segment returned by split_into_segments, except possibly the
\* last one, has at least min_words words.
C1_AllButLastReachMinWords ==
    segPc = "done" =>
        \A i \in 1..(Len(segments) - 1) : word_count(segments[i]) >= min_words

\* C2 (as stated): every non-empty input text gives a non-empty sequence of
\* segments.
C2_NonEmptyTextGivesSegments ==
    (segPc = "done" /\ text # <<>>) => segments # <<>>

\* C2 (amended): every input text with at least one non-whitespace character
\* gives a non-empty sequence of segments.
C2_NonBlankTextGivesSegments ==
    (segPc = "done" /\ HasLetter(text)) => segments # <<>>

\* a text below min_words that still comes back as one segment
C2_Witness ==
    /\ segPc = "done"
    /\ HasLetter(text)
    /\ word_count(text) < min_words
    /\ Len(segments) = 1

\* C3: the segments, in order, cut the sequence of trimmed non-empty
\* paragraphs into consecutive runs (nothing dropped, duplicated or
\* reordered), so both join to the same text with blank lines; a trailing
\* buffer below min_words is the last segment.
C3_SegmentsPartitionParagraphs ==
    segPc = "done" =>
        /\ CutsIntoRuns(segments, Paragraphs(text))
        /\ Join(segments, BlankLine) = Join(Paragraphs(text), BlankLine)

\* three paragraphs, the last one a short trailing buffer emitted on its own
C3_Witness ==
    /\ segPc = "done"
    /\ Len(Paragraphs(text)) = 3
    /\ Len(segments) = 2
    /\ word_count(segments[2]) < min_words

\* C4: an unknown tone label raises the unsupported-tone error; with a known
\* tone, an unknown platform label raises the unsupported-platform error that
\* names the first offending label (the tone is validated first); with a
\* known tone and known platform labels neither the constructor nor
\* build_prompts raises.
C4_LabelValidation ==
    pbPc \in {"raised", "built", "done"} =>
        LET badTone == tone_display \notin DOMAIN TONES
            bad == {i \in 1..Len(platform_labels) : platform_labels[i] \notin DOMAIN PLATFORMS}
        IN  /\ badTone =>
                /\ pbPc = "raised"
                /\ builder.raised
                /\ builder.type = "ValueError"
                /\ builder.msg = <<"Unsupported tone: ", tone_display>>
            /\ (~badTone /\ bad # {}) =>
                /\ pbPc = "raised"
                /\ builder.raised
                /\ builder.type = "ValueError"
                /\ \E i \in bad :
                      /\ \A j \in bad : i <= j
                      /\ builder.msg = <<"Unsupported platform: ", platform_labels[i]>>
            /\ (~badTone /\ bad = {}) =>
                /\ pbPc # "raised"
                /\ ~builder.raised
                /\ pbPc = "done" => ~prompts.raised

\* a known tone, a known first platform and an unknown second one
C4_Witness ==
    /\ pbPc = "raised"
    /\ tone_display \in DOMAIN TONES
    /\ Len(platform_labels) >= 2
    /\ platform_labels[1] \in DOMAIN PLATFORMS
    /\ builder.msg = <<"Unsupported platform: ", platform_labels[2]>>

\* the index in pbSegments of the j-th segment that is non-empty after trimming
NonEmptyIdx == {i \in 1..Len(pbSegments) : Strip(pbSegments[i]) # <<>>}
NthNonEmpty(j) ==
    CHOOSE i \in NonEmptyIdx : Cardinality({k \in NonEmptyIdx : k <= i}) = j

\* C5: for every requested platform the prompts are as many as the segments
\* that are non-empty after trimming, and the j-th prompt is the (platform,
\* tone) template with the trimmed j-th non-empty segment as content.
C5_OnePromptPerNonEmptySegment ==
    (pbPc = "done" /\ ~prompts.raised) =>
        \A i \in 1..Len(platform_labels) :
            LET platform_id == PLATFORMS[platform_labels[i]]
                list == DictGet(prompts.value, platform_id)
            IN  /\ DictHas(prompts.value, platform_id)
                /\ Len(list) = Cardinality(NonEmptyIdx)
                /\ \A j \in 1..Len(list) :
                      list[j] = <<TEMPLATES[platform_id][TONES[tone_display]]>>
                                    \o Strip(pbSegments[NthNonEmpty(j)])

\* an empty segment between two non-empty ones, one of them padded
C5_Witness ==
    /\ pbPc = "done"
    /\ ~prompts.raised
    /\ Len(platform_labels) >= 1
    /\ Len(pbSegments) = 3
    /\ Strip(pbSegments[1]) # pbSegments[1]
    /\ Strip(pbSegments[1]) # <<>>
    /\ Strip(pbSegments[2]) = <<>>
    /\ Strip(pbSegments[3]) # <<>>

\* position of the first occurrence of platform key k among the request labels
FirstRequested(k) ==
    CHOOSE i \in 1..Len(platform_labels) :
        /\ PLATFORMS[platform_labels[i]] = k
        /\ \A j \in 1..(i - 1) : PLATFORMS[platform_labels[j]] # k

\* C6: the keys of the returned mapping are the requested platforms, each
\* once, ordered by the first occurrence of their label in the request; the
\* contents of the prompts of one platform follow the order of the segments.
C6_InsertionOrder ==
    (pbPc = "done" /\ ~prompts.raised) =>
        LET keys == DictKeys(prompts.value)
        IN  /\ Range(keys) = {PLATFORMS[platform_labels[i]] : i \in 1..Len(platform_labels)}
            /\ \A i, j \in 1..Len(keys) :
                  i < j => /\ keys[i] # keys[j]
                           /\ FirstRequested(keys[i]) < FirstRequested(keys[j])
            /\ \A i \in 1..Len(keys) :
                  LET list == prompts.value[i].value
                  IN  [j \in 1..Len(list) |-> Tail(list[j])] = StripNonEmpty(pbSegments)

\* a request A, B, A: two keys, A first
C6_Witness ==
    /\ pbPc = "done"
    /\ ~prompts.raised
    /\ Len(platform_labels) = 3
    /\ platform_labels[1] = platform_labels[3]
    /\ platform_labels[1] # platform_labels[2]
    /\ Len(prompts.value) = 2
    /\ Len(StripNonEmpty(pbSegments)) = 2

\* the registry without the template of (platform_id, tone_key)
WithoutTemplate(registry, platform_id, tone_key) ==
    [registry EXCEPT ![platform_id] =
        [t \in (DOMAIN registry[platform_id]) \ {tone_key} |-> registry[platform_id][t]]]

\* C7: TEMPLATES has a template for every platform key and tone key, so
\* build_prompts never raises for a pair the constructor accepted; against a
\* registry that lacks the template of a requested pair build_prompts raises
\* the missing-template error and returns no prompts.
C7_RegistryComplete ==
    /\ \A p \in Range(PLATFORMS) : \A t \in Range(TONES) :
          p \in DOMAIN TEMPLATES /\ t \in DOMAIN TEMPLATES[p]
    /\ pbPc = "done" =>
          /\ ~prompts.raised
          /\ \A i \in 1..Len(builder.value.platform_ids) :
                LET p == builder.value.platform_ids[i]
                    t == builder.value.tone_key
                    r == BuildLoop(WithoutTemplate(TEMPLATES, p, t), t,
                                   builder.value.platform_ids, pbSegments, <<>>)
                IN  /\ r.raised
                    /\ r.type = "ValueError"
                    /\ r.msg[2] = t

\* prompts built for YouTube in the promotional tone
C7_Witness ==
    /\ pbPc = "done"
    /\ ~prompts.raised
    /\ tone_display = "Promotional"
    /\ DictHas(prompts.value, "youtube")
    /\ Len(DictGet(prompts.value, "youtube")) >= 1

\* the backend so far: candidate 0 has only failed as unavailable and
\* candidate 1 has only succeeded
FirstGoneSecondUp ==
    \A h \in history : /\ h[1] = 0 => h[2] = "unavailable"
                       /\ h[1] = 1 => h[2] = "ok"

AttemptIndexes == [i \in 1..Len(last.attempts) |-> last.attempts[i].index]
AttemptModels == [i \in 1..Len(last.attempts) |-> last.attempts[i].model]

\* C8: with a first candidate that always fails as not found and a second that
\* always succeeds, the first generate_text call that reaches the backend (its
\* prompt is not blank) tries candidate 0, then candidate 1, and returns the
\* text of candidate 1's response; every later call tries candidate 1 only.
C8_FallbackIsRemembered ==
    (FirstGoneSecondUp /\ nSent >= 1) =>
        /\ current_model_index = 1
        /\ model = model_names[2]
        /\ last.attempts # <<>> =>
              IF nSent = 1
              THEN /\ AttemptIndexes = <<0, 1>>
                   /\ AttemptModels = <<model_names[1], model_names[2]>>
                   /\ last.attempts[2].outcome.ok
                   /\ last.result = ExtractText(last.attempts[2].outcome.response)
              ELSE /\ AttemptIndexes = <<1>>
                   /\ AttemptModels = <<model_names[2]>>
                   /\ last.result = ExtractText(last.attempts[1].outcome.response)

\* the third call of such a run, served by candidate 1 alone
C8_Witness ==
    /\ FirstGoneSecondUp
    /\ nSent = 3
    /\ AttemptIndexes = <<1>>
    /\ last.result = <<"a">>
    /\ history = {<<0, "unavailable">>, <<1, "ok">>}

\* C9: the model index never decreases, never returns to 0 and always is an
\* index of the candidate list; self.model is the candidate at that index.
C9_IndexOnlyAdvances ==
    /\ [](/\ current_model_index \in 0..(Len(model_names) - 1)
          /\ model = model_names[current_model_index + 1])
    /\ [][/\ current_model_index' >= current_model_index
          /\ current_model_index # 0 => current_model_index' # 0
          /\ model_names' = model_names]_vars

\* a call at the last candidate that fails as unavailable: no candidate is left
C9_Witness ==
    /\ nSent >= 1
    /\ last.idxBefore = Len(model_names) - 1
    /\ Len(last.attempts) = 1
    /\ Kind(last.attempts[1].outcome) = "unavailable"
    /\ current_model_index = Len(model_names) - 1

\* s occurs in t as a contiguous run
Embeds(t, s) ==
    \E k \in 0..(Len(t) - Len(s)) : SubSeq(t, k + 1, k + Len(s)) = s

\* C10: when the first attempt of a call fails with a rate limit, a network
\* error or a malformed response, there is no second attempt, the model index
\* and the bound model are those from before the call (so the next call starts
\* there), and the returned string is the error prefix with the message of the
\* failure embedded.
C10_OtherFailureKeepsState ==
    /\ [](  (last.attempts # <<>> /\ Kind(last.attempts[1].outcome) = "other") =>
               /\ Len(last.attempts) = 1
               /\ current_model_index = last.idxBefore
               /\ model = model_names[last.idxBefore + 1]
               /\ Head(last.result) = ErrorPrefix
               /\ Embeds(last.result, last.attempts[1].outcome.msg))
    /\ [][nCalls' = nCalls + 1 => last'.idxBefore = current_model_index]_vars

\* a rate-limited call on an already advanced client, followed by a call that
\* starts from the same candidate
C10_Witness ==
    /\ nSent >= 3
    /\ last.idxBefore = 1
    /\ Len(last.attempts) = 1
    /\ last.attempts[1].outcome.ok
    /\ history = {<<0, "unavailable">>, <<1, "ok">>, <<1, "other">>}

\* C11: when the first attempt fails as unavailable, a next candidate exists
\* and the retry fails as unavailable too, the call returns an error string
\* that carries the guidance naming models (the tip).
C11_RetryFailureCarriesGuidance ==
    (/\ Len(last.attempts) = 2
     /\ Kind(last.attempts[1].outcome) = "unavailable"
     /\ Kind(last.attempts[2].outcome) = "unavailable") =>
        /\ ~last.raised
        /\ Head(last.result) = ErrorPrefix
        /\ Contains(last.result, TipPrefix)

RECURSIVE CutsLongAlone(_, _, _)
CutsLongAlone(segs, paras, mw) ==
    IF segs = <<>> THEN paras = <<>>
    ELSE \E k \in 1..Len(paras) :
            /\ segs[1] = Join(SubSeq(paras, 1, k), BlankLine)
            /\ k > 1 => \A j \in 1..k : word_count(paras[j]) < mw
            /\ CutsLongAlone(Tail(segs), SubSeq(paras, k + 1, Len(paras)), mw)

\* C19: a paragraph with at least min_words words is a segment by itself; the
\* shorter paragraphs pending before it form an earlier segment, and it is
\* merged neither with them nor with what follows.
C19_LongParagraphAlone ==
    segPc = "done" => CutsLongAlone(segments, Paragraphs(text), min_words)

\* a short paragraph pending when a long one arrives: two segments
C19_Witness ==
    /\ segPc = "done"
    /\ min_words >= 2
    /\ Len(Paragraphs(text)) = 2
    /\ word_count(Paragraphs(text)[1]) < min_words
    /\ word_count(Paragraphs(text)[2]) >= min_words
    /\ segments = Paragraphs(text)

\* C20: a text of whitespace only (the empty text included) gives no segment,
\* and every segment returned is non-empty and neither starts nor ends with
\* whitespace.
C20_BlankGivesNoneAndSegmentsTrimmed ==
    segPc = "done" =>
        /\ ~HasLetter(text) => segments = <<>>
        /\ \A i \in 1..Len(segments) :
              /\ segments[i] # <<>>
              /\ ~IsSpace(segments[i][1])
              /\ ~IsSpace(segments[i][Len(segments[i])])

\* a whitespace-only text holding a blank line
C20_Witness ==
    /\ segPc = "done"
    /\ Len(text) >= 3
    /\ ~HasLetter(text)
    /\ \E i \in 1..(Len(text) - 1) : text[i] = NL /\ text[i + 1] = NL
    /\ segments = <<>>

\* the results that survive trimming, by position
KeptIdx == {i \in 1..Len(results) : Strip(results[i]) # <<>>}
NthKept(j) == CHOOSE i \in KeptIdx : Cardinality({k \in KeptIdx : k <= i}) = j

\* C13: combine_segment_outputs(results) is the results that are non-empty
\* after trimming, each trimmed, in their original order, joined by a blank
\* line; it is the empty string when every result is empty or blank.
C13_CombineJoinsTrimmedSurvivors ==
    cmbPc = "done" =>
        IF KeptIdx = {} THEN combined = <<>>
        ELSE SplitBlank(combined) =
                 [j \in 1..Cardinality(KeptIdx) |-> Strip(results[NthKept(j)])]

\* ["", "  ", "B", "", "A"] gives "B\n\nA"
C13_Witness ==
    /\ cmbPc = "done"
    /\ results = << <<>>, <<SP, SP>>, <<"B">>, <<>>, <<"A">> >>
    /\ combined = <<"B", NL, NL, "A">>

\* C14: in the direct generation loop over N >= 1 prompts the progress value
\* reported after the k-th completed call is floor(100*k/N) for every
\* 1 <= k <= N, and it is exactly 100 after the N-th call.
C14_ProgressIsFloor ==
    (entry = "app" /\ total_prompts > 0) =>
        \A k \in 1..Len(reports) :
            /\ reports[k] = (100 * k) \div total_prompts
            /\ k = total_prompts => reports[k] = 100

\* C15: during one batch the reported progress never decreases, across
\* platforms too, stays within 0..100, is reported only after the call it
\* accounts for has completed, and the completed count grows by exactly one
\* per generation call.
C15_ProgressMonotoneAndCounted ==
    /\ []((entry = "app" /\ total_prompts > 0) =>
            /\ completed = nCalls
            /\ Len(reports) = nCalls
            /\ Len(callLog) = nCalls
            /\ \A i \in 1..Len(reports) : reports[i] \in 0..100
            /\ \A i \in 1..Len(reports) : \A j \in i..Len(reports) :
                   reports[i] <= reports[j])
    /\ [][(entry = "app" /\ total_prompts > 0 /\ nCalls' # nCalls) =>
            /\ nCalls' = nCalls + 1
            /\ completed' = completed + 1
            /\ Len(reports') = Len(reports) + 1
            /\ SubSeq(reports', 1, Len(reports)) = reports]_vars

\* two platforms of two segments each: the progress goes on across platforms
C15_Witness ==
    /\ entry = "app"
    /\ runPc = "done"
    /\ Len(prompts_by_platform) = 2
    /\ platform_pos = 3
    /\ completed = 4
    /\ reports = <<25, 50, 75, 100>>

\* the prompts of a dict in the order of its items: platform, position, prompt
RECURSIVE FlatPrompts(_)
FlatPrompts(d) ==
    IF d = <<>> THEN <<>>
    ELSE [i \in 1..Len(Head(d).value) |->
             [platform |-> Head(d).key, index |-> i, prompt |-> Head(d).value[i]]]
         \o FlatPrompts(Tail(d))

\* the distinct elements of a list in the order of their first occurrence
RECURSIVE FirstOccurrences(_)
FirstOccurrences(xs) ==
    IF xs = <<>> THEN <<>>
    ELSE <<Head(xs)>> \o FirstOccurrences(SelectSeq(Tail(xs), LAMBDA x : x # Head(xs)))

\* the call of the batch for prompt i of platform p
CallOf(p, i) ==
    callLog[CHOOSE n \in 1..Len(callLog) : callLog[n].platform = p /\ callLog[n].index = i]

\* C16: a batch issues exactly one generate_text call per prompt, one at a
\* time, in the order of the prompt builder: platforms in request order and,
\* within a platform, prompts in segment order; the i-th result of a platform
\* is the result of its i-th prompt.
C16_OneCallPerPromptInOrder ==
    /\ [](runPc \in {"loop", "finish", "done"} =>
            /\ nCalls = Len(callLog)
            /\ Len(callLog) <= Len(FlatPrompts(prompts_by_platform))
            /\ \A n \in 1..Len(callLog) :
                  /\ callLog[n].platform = FlatPrompts(prompts_by_platform)[n].platform
                  /\ callLog[n].index = FlatPrompts(prompts_by_platform)[n].index
                  /\ callLog[n].prompt = FlatPrompts(prompts_by_platform)[n].prompt
                  /\ (~callLog[n].failed /\ Strip(callLog[n].prompt) # <<>>) =>
                         callLog[n].result = <<"re:">> \o callLog[n].prompt
            /\ runPc \in {"finish", "done"} =>
                   Len(callLog) = Len(FlatPrompts(prompts_by_platform))
            /\ (entry \in {"api", "app"} /\ prompts_by_platform # <<>>) =>
                  /\ DictKeys(prompts_by_platform) =
                         FirstOccurrences([i \in 1..Len(request.platforms) |->
                                              PLATFORMS[request.platforms[i]]])
                  /\ \A p \in 1..Len(prompts_by_platform) :
                         prompts_by_platform[p].value =
                             [i \in 1..Len(batch_segments) |->
                                 Format(TEMPLATES[prompts_by_platform[p].key][TONES[request.tone]],
                                        batch_segments[i])]
            /\ runPc = "loop" =>
                  /\ Len(responses) = prompt_pos
                  /\ \A i \in 1..Len(responses) :
                         responses[i] = CallOf(prompts_by_platform[platform_pos].key, i).result
            /\ (entry = "lib" /\ runPc \in {"finish", "done"}) =>
                   \A p \in 1..Len(prompts_by_platform) :
                       DictGet(outputs, prompts_by_platform[p].key) =
                           [i \in 1..Len(prompts_by_platform[p].value) |->
                               CallOf(prompts_by_platform[p].key, i).result])
    /\ [][/\ nCalls' \in {nCalls, nCalls + 1}
          /\ Len(callLog') = Len(callLog) + (nCalls' - nCalls)]_vars

\* two platforms, requested YouTube first, of two segments each
C16_Witness ==
    /\ entry = "app"
    /\ runPc = "finish"
    /\ request.platforms = <<"YouTube", "LinkedIn">>
    /\ [n \in 1..Len(callLog) |-> <<callLog[n].platform, callLog[n].index>>] =
           << <<"youtube", 1>>, <<"youtube", 2>>, <<"linkedin", 1>>, <<"linkedin", 2>> >>
    /\ callLog[2].prompt = <<"youtube/professional Content:", "b">>
    /\ callLog[2].failed
    /\ ~callLog[3].failed

\* C17: a failure of one generation request does not abort the batch: every
\* prompt is still sent, the pipeline returns normally, the outputs have an
\* entry for every requested platform, the result of a failed request is a
\* non-empty placeholder that names the failure, and it and the results of
\* the other requests are part of the outputs; saved is false when saving was
\* not requested.
C17_FailureDoesNotAbort ==
    (entry \in {"api", "app"} /\ runPc \in {"finish", "done"} /\ callLog # <<>>) =>
        /\ Len(callLog) = TotalPrompts(prompts_by_platform)
        /\ \A i \in 1..Len(request.platforms) :
               DictHas(outputs, PLATFORMS[request.platforms[i]])
        /\ \A n \in 1..Len(callLog) :
              /\ ~callLog[n].raised
              /\ callLog[n].failed =>
                    /\ Strip(callLog[n].result) # <<>>
                    /\ Head(callLog[n].result) = ErrorPrefix
                    /\ Embeds(callLog[n].result, callLog[n].msg)
              /\ Embeds(DictGet(outputs, callLog[n].platform), Strip(callLog[n].result))
        /\ (runPc = "done" /\ entry = "app") =>
               (ending.kind = "returned" /\ ending.value = outputs)
        /\ (runPc = "done" /\ entry = "api" /\ ~request.save) =>
              /\ ending.kind = "returned"
              /\ ending.value.outputs = outputs
              /\ ~ending.value.saved

\* two platforms with one segment each, both requests rate-limited
C17_Witness ==
    /\ entry = "api"
    /\ runPc = "done"
    /\ ~request.save
    /\ Len(callLog) = 2
    /\ Len(outputs) = 2
    /\ \A n \in 1..2 : callLog[n].failed /\ callLog[n].msg = <<"429", "quota exceeded">>
    /\ \A p \in 1..2 : Head(outputs[p].value) = ErrorPrefix
    /\ ending.kind = "returned"
    /\ ~ending.value.saved

\* a request or a session without any text to work on, its labels being valid
EmptyInput ==
    CASE entry = "api" ->
            /\ request.tone \in DOMAIN TONES
            /\ request.platforms # <<>>
            /\ \A i \in 1..Len(request.platforms) : request.platforms[i] \in DOMAIN PLATFORMS
            /\ request.segments \in {NoSegments, <<>>}
            /\ (request.text = NoText \/ Strip(request.text) = <<>>)
      [] entry = "app" -> StripNonEmpty(request.segments) = <<>>
      [] OTHER -> FALSE

\* C18: an empty input (no text, no segments) is reported as "nothing to
\* do", not as an error, by the /generate endpoint and by _generate_posts
\* alike, and no generation call is made.
C18_EmptyInputIsNothingToDo ==
    (runPc = "done" /\ EmptyInput) =>
        /\ ending.kind = "returned"
        /\ \A i \in 1..Len(notices) : notices[i] # "error"
        /\ nCalls = 0


\* C21: a generate_text call whose first backend attempt succeeds makes no
\* second attempt, returns the text of that response (for a response with a
\* top-level text, that text trimmed) and leaves the model index, the model
\* and the candidate list as they were.
C21_FirstSuccessChangesNothing ==
    /\ [](/\ last.attempts # <<>>
          /\ last.attempts[1].outcome.ok
          => /\ Len(last.attempts) = 1
             /\ ~last.raised
             /\ last.result = ExtractText(last.attempts[1].outcome.response)
             /\ LET r == last.attempts[1].outcome.response
                IN  r.hasText /\ r.text # <<>> => last.result = Strip(r.text)
             /\ current_model_index = last.idxBefore)
    /\ [][/\ nCalls' = nCalls + 1
          /\ last'.attempts # <<>>
          /\ last'.attempts[1].outcome.ok
          => /\ current_model_index' = current_model_index
             /\ model' = model
             /\ model_names' = model_names]_vars

\* a first-attempt success on a candidate past the first one
C21_Witness ==
    /\ current_model_index = 1
    /\ last.idxBefore = 1
    /\ Len(last.attempts) = 1
    /\ last.attempts[1].outcome.ok
    /\ last.result = <<"a">>

\* C24: every generate_text call makes at most two backend attempts, the
\* second one only after a failed first one, and moves the model index
\* forward by at most one position, whatever the backend answers.
C24_AtMostTwoAttemptsOneStep ==
    /\ [](/\ Len(last.attempts) <= 2
          /\ Len(last.attempts) = 2 => ~last.attempts[1].outcome.ok
          /\ current_model_index - last.idxBefore \in {0, 1})
    /\ [][/\ current_model_index' - current_model_index \in {0, 1}
          /\ nSent' - nSent \in {0, 1}]_vars

\* a call of two attempts, both failed, that moved the index by one
C24_Witness ==
    /\ Len(last.attempts) = 2
    /\ ~last.attempts[2].outcome.ok
    /\ current_model_index = last.idxBefore + 1
    /\ nCalls >= 2


\* the backend as the calls so far have seen it: every candidate before
\* index w answered "unavailable" each time, candidate w answered each time
Escalates(w) ==
    /\ nCalls >= 1
    /\ nSent = nCalls
    /\ \A h \in history : /\ h[1] < w => h[2] = "unavailable"
                          /\ h[1] = w => h[2] = "ok"
                          /\ h[1] <= w

LastAttempt == last.attempts[Len(last.attempts)]

\* C25: on a fresh client whose candidates before index w always fail as
\* unavailable and whose candidate w always answers, the calls with a
\* non-empty prompt return an error string exactly for the first
\* max(w-1, 0) calls, the next call succeeds on candidate w, and every later
\* call succeeds on its first attempt against candidate w.
C25_EscalationReachesWorkingModel ==
    \A w \in 0..(Len(model_names) - 1) :
        Escalates(w) =>
            LET errors == IF w >= 1 THEN w - 1 ELSE 0
            IN  IF nCalls <= errors
                THEN /\ last.result # <<>>
                     /\ Head(last.result) = ErrorPrefix
                     /\ current_model_index = nCalls
                ELSE /\ LastAttempt.outcome.ok
                     /\ LastAttempt.index = w
                     /\ last.result = ExtractText(LastAttempt.outcome.response)
                     /\ current_model_index = w
                     /\ model = model_names[w + 1]
                     /\ nCalls > errors + 1 => Len(last.attempts) = 1

\* the fourth candidate is the working one: two failed calls, a call that
\* succeeds on its retry, and a call that succeeds at once
C25_Witness ==
    /\ Escalates(3)
    /\ nCalls = 4
    /\ history = {<<0, "unavailable">>, <<1, "unavailable">>,
                  <<2, "unavailable">>, <<3, "ok">>}
    /\ Len(last.attempts) = 1
    /\ last.attempts[1].index = 3
    /\ last.attempts[1].outcome.ok


\* the names asked for at construction, in the order the constructor takes them
RequestedNames ==
    (IF preferred # <<>> THEN <<preferred>> ELSE <<>>)
        \o StaticPreference \o discover_supported_models(catalog)

\* C23: the candidate list is the preferred model (if any), then the static
\* preference list, then the discovered models, each name once at the place
\* of its first occurrence; it is never empty and holds the whole static
\* preference list, also when discovery fails or finds nothing.
C23_CandidatesMergedOnce ==
    /\ model_names = FirstOccurrences(RequestedNames)
    /\ \A i, j \in 1..Len(model_names) : model_names[i] = model_names[j] => i = j
    /\ model_names # <<>>
    /\ \A i \in 1..Len(StaticPreference) :
           \E j \in 1..Len(model_names) : model_names[j] = StaticPreference[i]
    /\ preferred # <<>> => model_names[1] = preferred
    /\ catalog.fails \/ discover_supported_models(catalog) = <<>>
           => \A j \in 1..Len(model_names) :
                  model_names[j] = preferred
                  \/ \E i \in 1..Len(StaticPreference) : model_names[j] = StaticPreference[i]

\* a preferred model that discovery lists again, and a discovered model
\* listed twice
C23_Witness ==
    /\ preferred = <<"my-tuned-model">>
    /\ Len(discover_supported_models(catalog)) = 3
    /\ model_names = <<preferred>> \o StaticPreference \o << <<"gemini-2.0-flash">> >>


\* the parts that carry a text, of the candidates that carry a content, in
\* candidate order and part order
RECURSIVE TextPartsFrom(_, _)
TextPartsFrom(cs, i) ==
    IF i > Len(cs) THEN <<>>
    ELSE LET kept == IF cs[i].hasContent
                     THEN SelectSeq(cs[i].parts, LAMBDA p : p.hasText) ELSE <<>>
         IN  [k \in 1..Len(kept) |-> kept[k].text] \o TextPartsFrom(cs, i + 1)

TextParts(r) == TextPartsFrom(r.candidates, 1)

\* the texts one after the other, nothing between them
Concat(texts) == Join(texts, <<>>)

HasTopLevelText == response.hasText /\ response.text # <<>>

\* C22 as stated: a non-empty top-level text is returned trimmed; otherwise
\* the result is the texts of all parts of all candidates concatenated in
\* candidate order and part order; without any text the result is empty.
C22_ExtractionConcatenates ==
    extPc = "done" =>
        /\ HasTopLevelText => extracted = Strip(response.text)
        /\ ~HasTopLevelText /\ response.hasCandidates
               => extracted = Concat(TextParts(response))
        /\ ~HasTopLevelText /\ ~response.hasCandidates => extracted = <<>>

\* C22, amended: a non-empty top-level text is returned trimmed; otherwise
\* the result is the texts of the parts that have one, of the candidates that
\* have a content, in candidate order and part order, joined by line breaks
\* and trimmed; when neither yields a text the result is the empty string,
\* never an error string.
C22_ExtractionJoinsLines ==
    extPc = "done" =>
        /\ HasTopLevelText => extracted = Strip(response.text)
        /\ ~HasTopLevelText /\ response.hasCandidates
               => extracted = Strip(Join(TextParts(response), <<NL>>))
        /\ ~HasTopLevelText /\ ~response.hasCandidates => extracted = <<>>
        /\ ~HasTopLevelText /\ TextParts(response) = <<>> => extracted = <<>>
        /\ extracted = <<>> \/ Head(extracted) # ErrorPrefix

\* two candidates of two parts each, no top-level text
C22_Witness ==
    /\ extPc = "done"
    /\ ~response.hasText
    /\ Len(response.candidates) = 2
    /\ extracted = <<"a", NL, "b", NL, "b", NL, "a">>


\* the characters of a text that are not whitespace, in order
Ink(t) == SelectSeq(t, LAMBDA c : ~IsSpace(c))

\* words separated by one space each: no other whitespace, none at the ends,
\* none twice in a row
SingleSpaced(t) ==
    /\ \A i \in 1..Len(t) : IsSpace(t[i]) => t[i] = SP /\ 1 < i /\ i < Len(t)
    /\ \A i \in 1..(Len(t) - 1) : ~(t[i] = SP /\ t[i + 1] = SP)

\* C26: for max_words >= 1 and a text of more than max_words words,
\* enforce_word_limit returns the first max_words words joined by single
\* spaces, with count max_words, and split_into_segments of that text is
\* exactly one segment, the text itself; a text within the limit is returned
\* unchanged with its word count.
C26_WordLimitFlattensText ==
    limPc = "done" /\ max_words >= 1 =>
        IF word_count(limText) > max_words
        THEN /\ limited.text = Join(SubSeq(SplitWords(limText), 1, max_words), <<SP>>)
             /\ limited.count = max_words
             /\ word_count(limited.text) = max_words
             /\ SingleSpaced(limited.text)
             /\ \E n \in 1..Len(Ink(limText)) : Ink(limited.text) = SubSeq(Ink(limText), 1, n)
             /\ limSegments = <<limited.text>>
             /\ \A mw \in 0..MaxMinWords :
                    split_into_segments(limited.text, mw) = <<limited.text>>
        ELSE /\ limited.text = limText
             /\ limited.count = word_count(limText)

\* two paragraphs of three words in all, cut to two words on one line
C26_Witness ==
    /\ limPc = "done"
    /\ limText = <<"a", NL, NL, "b", SP, "a">>
    /\ max_words = 2
    /\ limited = [text |-> <<"a", SP, "b">>, count |-> 2]
    /\ limSegments = << <<"a", SP, "b">> >>


\* the /generate request ended, one way or another
ApiEnded == entry = "api" /\ runPc = "done"

SavedReported == ending.kind = "returned" /\ ending.value.saved

DbCall(call, how) == \E i \in 1..Len(dbCalls) : dbCalls[i] = [call |-> call, outcome |-> how]

\* C27: a /generate response has saved = true only when save was asked for,
\* the project title is not blank, the user_id (when given) is an existing
\* user and save_to_db returned; then the rows written are those of the
\* outputs of the response. In every other outcome no post row is written,
\* and a save_to_db that raises leaves the request a success with saved = false.
C27_SavedOnlyWhenStored ==
    /\ [](ApiEnded /\ SavedReported
            => /\ request.save
               /\ request.project_title # NoText
               /\ Strip(request.project_title) # <<>>
               /\ request.user_id = NoUser \/ request.user_id \in KnownUsers
               /\ request.user_id # NoUser => DbCall("get_user_by_id", "found")
               /\ dbCalls[Len(dbCalls)] = [call |-> "save_to_db", outcome |-> "returns"]
               /\ posts = save_records(request.project_title, request.tone,
                                       ending.value.outputs, request.user_id))
    /\ [](ApiEnded /\ ~SavedReported => posts = <<>>)
    /\ [](ApiEnded /\ DbCall("save_to_db", "raises")
            => /\ ending.kind = "returned"
               /\ ~ending.value.saved
               /\ posts = <<>>)
    /\ [](ApiEnded /\ request.save /\ request.user_id # NoUser
                   /\ request.user_id \notin KnownUsers
            => ending.kind = "http_error" /\ posts = <<>>)
    /\ [][entry = "api" /\ posts' # posts => ApiEnded' /\ SavedReported']_vars

\* a save for an existing user that wrote a row
C27_Witness ==
    /\ ApiEnded
    /\ SavedReported
    /\ request.user_id = 1
    /\ Len(posts) >= 1
    /\ posts[1].user_id = 1


\* the click stored something: it ended with st.success
SaveReported == savePc = "clicked" /\ saveNotices = <<"success">>

\* C28: a "Save to Library" that reports success has added to the posts
\* table exactly the rows of the outputs held in the session, as generated
\* and as edited, and has made no generate_text call, on the backend path
\* as on the direct path.
C28_SaveStoresSessionOutputs ==
    SaveReported =>
        /\ posts = save_records(Strip(saveSession.project_title), saveSession.tone,
                                saveSession.platform_outputs, saveSession.user)
        /\ genCalls = 0


Registered(call) == call.op = "register_user" /\ ~call.result.raised

\* C29: after a register_user(name, email, password) that succeeded, an
\* authenticate_user with the same email string returns that user for the
\* same password and None for any other, and a register_user with the same
\* email string raises the ValueError for an existing account and leaves
\* the users table as it was.
C29_RegisterThenSignIn ==
    \A i, j \in 1..Len(authLog) :
        i < j /\ Registered(authLog[i]) /\ authLog[j].email = authLog[i].email =>
            IF authLog[j].op = "authenticate_user"
            THEN /\ ~authLog[j].result.raised
                 /\ authLog[j].result.value =
                        IF authLog[j].password = authLog[i].password
                        THEN authLog[i].result.value ELSE NoDict
            ELSE /\ authLog[j].result = Outcome(AccountExists)
                 /\ authLog[j].after = authLog[j].before

AllDone == regPc # <<>> /\ \A p \in Procs : regPc[p] = "done"

\* C30: however register_user calls with the same email interleave, the
\* users table never holds two rows with the same email, exactly one call
\* succeeds, and each of the others fails with the ValueError for an
\* existing account.
C30_OneRegistrationWins ==
    /\ \A i, j \in 1..Len(users) : users[i].email = users[j].email => i = j
    /\ AllDone =>
          /\ Cardinality({p \in Procs : ~regOutcome[p].raised}) = 1
          /\ \A p \in Procs :
                regOutcome[p].raised => regOutcome[p] = Outcome(AccountExists)

====
